---- MODULE Spec2Model ----
(***************************************************************************)
(* Model of the CAN data viewer's data layer: the BLF frame store          *)
(* (data/blf_reader.py), the DBC definition catalog (data/dbc_parser.py),  *)
(* the signal processor and its cache (data/signal_processor.py), the     *)
(* main window handlers that load files and recreate the processor        *)
(* (gui/main_window.py), the CSV exporter's alignment                      *)
(* (utils/csv_exporter.py), the JSON range exporter                        *)
(* (utils/partial_exporter.py) and the cursor statistics                   *)
(* (gui/statistics_widget.py).                                             *)
(*                                                                         *)
(* Python's Optional[T] is modelled as a sequence of length at most one:   *)
(* None is <<>> and a present value x is <<x>>.                            *)
(* Timestamps and values are integers (a fixed-point reading of floats).   *)
(***************************************************************************)
EXTENDS Integers, Sequences, FiniteSets, TLC

VARIABLES blf_reader, dbc_parser, blf_path, dbc_path, signal_processor, last, loads,
          request, export, disk, cursor_positions, stats_label, partial,
          signal_selector, graph_panel, cursor_manager, steps

vars == <<blf_reader, dbc_parser, blf_path, dbc_path, signal_processor, last, loads,
          request, export, disk, cursor_positions, stats_label, partial,
          signal_selector, graph_panel, cursor_manager, steps>>

\* the widgets of the main window and the number of user operations made
\* on them
widgets == <<signal_selector, graph_panel, cursor_manager, steps>>

(***************************************************************************)
(* Bounds of the model.                                                    *)
(***************************************************************************)
\* longest frame log read from a BLF file
MaxFrames == 2
\* number of file loads (BLF and DBC together)
MaxLoads == 2
\* the same two bounds for a session that loads files again
MaxSessionFrames == 1
MaxSessionLoads == 3
\* number of samples, over all series, handed to an exporter
MaxSamples == 3
\* the same for the series handed to the range exporter
MaxRangeSamples == 2

None == <<>>
Some(x) == <<x>>

(***************************************************************************)
(* Inputs: BLF files.  A frame is what can.BLFReader yields; a file is the *)
(* frames the reader yields before it either ends or raises.               *)
(***************************************************************************)
\* the frames a BLF file is made of: raw (absolute) timestamp, identifier and
\* payload; a payload is empty (too short to decode) or holds one byte
Frames ==
    { [timestamp |-> 2, arbitration_id |-> 1, data |-> <<1>>],
      [timestamp |-> 1, arbitration_id |-> 1, data |-> <<0>>],
      [timestamp |-> 2, arbitration_id |-> 1, data |-> <<>>],
      [timestamp |-> 1, arbitration_id |-> 2, data |-> <<1>>] }

RECURSIVE SeqsUpTo(_, _)
SeqsUpTo(S, n) ==
    IF n = 0 THEN {<<>>}
    ELSE LET shorter == SeqsUpTo(S, n - 1)
         IN  shorter \cup {Append(q, x) : q \in {r \in shorter : Len(r) = n - 1}, x \in S}

BlfFiles(maxFrames) == [frames : SeqsUpTo(Frames, maxFrames), raises : BOOLEAN]
BlfPaths == {"a.blf", "b.blf"}

(***************************************************************************)
(* Inputs: DBC files.  A file either fails to parse or yields a database,  *)
(* a set of message definitions.  A signal is the payload byte scaled and   *)
(* offset; a multiplexed signal (one with multiplexer_ids) is present only  *)
(* when the payload byte is one of its multiplexer values.                  *)
(***************************************************************************)
MsgNames == {"M1", "M2"}
SigNames == {"S1", "S2"}

DbA ==
    { [name |-> "M1", frame_id |-> 1, length |-> 1,
       signals |-> { [name |-> "S1", unit |-> "rpm", scale |-> 2, offset |-> 1,
                      multiplexer_ids |-> {}],
                     [name |-> "S2", unit |-> "", scale |-> 1, offset |-> 0,
                      multiplexer_ids |-> {1}] }],
      [name |-> "M2", frame_id |-> 2, length |-> 1,
       signals |-> { [name |-> "S1", unit |-> "", scale |-> 1, offset |-> 0,
                      multiplexer_ids |-> {}] }] }

DbB ==
    { [name |-> "M1", frame_id |-> 2, length |-> 1,
       signals |-> { [name |-> "S1", unit |-> "", scale |-> 3, offset |-> 0,
                      multiplexer_ids |-> {}] }] }

\* the DBC files on disk: two that parse and one that does not
DbcPaths == {"a.dbc", "b.dbc", "bad.dbc"}
DbcFiles == [filepath \in DbcPaths |->
                IF filepath = "a.dbc" THEN Some(DbA)
                ELSE IF filepath = "b.dbc" THEN Some(DbB)
                ELSE None]

(***************************************************************************)
(* BLFReader                                                               *)
(***************************************************************************)
BLFReader_init ==
    [messages |-> <<>>, filepath |-> "", start_time |-> 0, end_time |-> 0]

\* variant: only the first frame is shifted
Normalize_first_only(messages, start_time) ==
    [i \in 1..Len(messages) |->
        IF i = 1 THEN [messages[i] EXCEPT !.timestamp = messages[i].timestamp - start_time]
        ELSE messages[i]]

\* the loop "for msg in self.messages: msg['timestamp'] -= self.start_time"
Normalize(messages, start_time) ==
    [i \in 1..Len(messages) |->
        [messages[i] EXCEPT !.timestamp = messages[i].timestamp - start_time]]

\* BLFReader.load_file: the reader after the call, and the value returned
BLF_load_file(reader, filepath, file) ==
    LET cleared == [reader EXCEPT !.filepath = filepath, !.messages = <<>>]
        read    == [cleared EXCEPT !.messages = file.frames]
    IN  IF file.raises
        THEN [reader |-> read, ok |-> FALSE]
        ELSE IF read.messages # <<>>
             THEN LET start == read.messages[1].timestamp
                      end   == read.messages[Len(read.messages)].timestamp
                  IN  [reader |-> [read EXCEPT !.start_time = start,
                                               !.end_time = end,
                                               !.messages = Normalize(read.messages, start)],
                       ok |-> TRUE]
             ELSE [reader |-> read, ok |-> FALSE]

\* variant: the identifier filter is lost and every frame is returned
get_messages_by_id_unfiltered(reader, arbitration_id) ==
    reader.messages

get_messages_by_id(reader, arbitration_id) ==
    SelectSeq(reader.messages, LAMBDA msg : msg.arbitration_id = arbitration_id)

get_unique_message_ids(reader) ==
    {reader.messages[i].arbitration_id : i \in 1..Len(reader.messages)}

(***************************************************************************)
(* DBCParser                                                               *)
(***************************************************************************)
DBCParser_init == [database |-> None, filepath |-> ""]

\* DBCParser.load_file: cantools raises on an unparsable file
DBC_load_file(parser, filepath, file) ==
    LET pathed == [parser EXCEPT !.filepath = filepath]
    IN  IF file = None
        THEN [parser |-> pathed, ok |-> FALSE]
        ELSE [parser |-> [pathed EXCEPT !.database = file], ok |-> TRUE]

get_message_by_id(parser, message_id) ==
    IF parser.database = None THEN None
    ELSE LET found == {m \in parser.database[1] : m.frame_id = message_id}
         IN  IF found = {} THEN None ELSE Some(CHOOSE m \in found : TRUE)

get_message_by_name(parser, message_name) ==
    IF parser.database = None THEN None
    ELSE LET found == {m \in parser.database[1] : m.name = message_name}
         IN  IF found = {} THEN None ELSE Some(CHOOSE m \in found : TRUE)

\* message.decode(data): raises when the data is shorter than the message
message_decode(message, data) ==
    IF Len(data) < message.length THEN None
    ELSE LET present == {s \in message.signals :
                            s.multiplexer_ids = {} \/ data[1] \in s.multiplexer_ids}
         IN  Some([n \in {s.name : s \in present} |->
                     LET s == CHOOSE s \in present : s.name = n
                     IN  data[1] * s.scale + s.offset])

decode_message(parser, message_id, data) ==
    LET message == get_message_by_id(parser, message_id)
    IN  IF message = None THEN None ELSE message_decode(message[1], data)

DBC_get_file_info(parser) ==
    IF parser.database = None
    THEN [filepath |-> "", message_count |-> 0]
    ELSE [filepath |-> parser.filepath,
          message_count |-> Cardinality(parser.database[1])]

\* the order in which cantools lists the messages of a file and the
\* signals of a message: the order of the names
NameOrder == <<"M1", "M2", "S1", "S2", "S3">>

\* the members of a set of records with distinct names, in NameOrder
InNameOrder(named) ==
    LET present == SelectSeq(NameOrder, LAMBDA n : \E x \in named : x.name = n)
    IN  [i \in 1..Len(present) |-> CHOOSE x \in named : x.name = present[i]]

\* DBCParser.get_messages: the list handed to the signal selector
get_messages(parser) ==
    IF parser.database = None THEN <<>>
    ELSE LET msgs == InNameOrder(parser.database[1])
         IN  [m \in 1..Len(msgs) |->
                 LET sigs == InNameOrder(msgs[m].signals)
                 IN  [name |-> msgs[m].name, id |-> msgs[m].frame_id,
                      signals |-> [g \in 1..Len(sigs) |->
                                      [name |-> sigs[g].name, unit |-> sigs[g].unit]]]]

(***************************************************************************)
(* SignalProcessor                                                         *)
(***************************************************************************)
Keys == MsgNames \X SigNames

\* key = f"{message_name}.{signal_name}"; DBC names are C identifiers and
\* hold no '.', so the formatted key determines the pair
CacheKey(message_name, signal_name) == <<message_name, signal_name>>

EmptyCache == [k \in {} |-> [time |-> <<>>, value |-> <<>>]]

SignalProcessor_init == [processed_signals |-> EmptyCache]

\* variant: the timestamp is appended before the decode result is tested
DecodeStep_timestamp_first(parser, frame_id, signal_name, msg, acc) ==
    LET decoded == decode_message(parser, frame_id, msg.data)
    IN  IF decoded # None /\ signal_name \in DOMAIN decoded[1]
        THEN [timestamps |-> Append(acc.timestamps, msg.timestamp),
              values     |-> Append(acc.values, decoded[1][signal_name])]
        ELSE [acc EXCEPT !.timestamps = Append(acc.timestamps, msg.timestamp)]

\* the body of "for msg in blf_messages", applied to one frame
DecodeStep(parser, frame_id, signal_name, msg, acc) ==
    LET decoded == decode_message(parser, frame_id, msg.data)
    IN  IF decoded # None /\ signal_name \in DOMAIN decoded[1]
        THEN [timestamps |-> Append(acc.timestamps, msg.timestamp),
              values     |-> Append(acc.values, decoded[1][signal_name])]
        ELSE acc

RECURSIVE DecodeLoop(_, _, _, _, _)
DecodeLoop(parser, frame_id, signal_name, blf_messages, acc) ==
    IF blf_messages = <<>> THEN acc
    ELSE DecodeLoop(parser, frame_id, signal_name, Tail(blf_messages),
                    DecodeStep(parser, frame_id, signal_name, Head(blf_messages), acc))

\* variant: the empty-result test is missing
NoValidData_never(acc) == FALSE

\* "if not timestamps": no frame produced a sample
NoValidData(acc) == acc.timestamps = <<>>

\* dict assignment self.processed_signals[key] = series
CachePut(processed_signals, key, series) ==
    [k \in DOMAIN processed_signals \cup {key} |->
        IF k = key THEN series ELSE processed_signals[k]]

\* SignalProcessor.process_signal: the value returned, the message printed,
\* the number of decode_message calls made and the cache after the call
process_signal(processor, reader, parser, message_name, signal_name) ==
    LET message == get_message_by_name(parser, message_name)
        unchanged == processor.processed_signals
    IN  IF message = None
        THEN [ret |-> None, diag |-> "not found in DBC", decodes |-> 0,
              processed_signals |-> unchanged]
        ELSE
        LET blf_messages == get_messages_by_id(reader, message[1].frame_id)
        IN  IF blf_messages = <<>>
            THEN [ret |-> None, diag |-> "no messages with ID", decodes |-> 0,
                  processed_signals |-> unchanged]
            ELSE
            LET acc == DecodeLoop(parser, message[1].frame_id, signal_name, blf_messages,
                                  [timestamps |-> <<>>, values |-> <<>>])
                series == [time |-> acc.timestamps, value |-> acc.values]
            IN  IF NoValidData(acc)
                THEN [ret |-> None, diag |-> "no valid data",
                      decodes |-> Len(blf_messages),
                      processed_signals |-> unchanged]
                ELSE [ret |-> Some(series), diag |-> "",
                      decodes |-> Len(blf_messages),
                      processed_signals |->
                          CachePut(processor.processed_signals,
                                   CacheKey(message_name, signal_name), series)]

get_cached_signal(processor, message_name, signal_name) ==
    LET key == CacheKey(message_name, signal_name)
    IN  IF key \in DOMAIN processor.processed_signals
        THEN Some(processor.processed_signals[key])
        ELSE None

\* variant: the cache is rebound to a copy and the processor keeps its entries
clear_cache_keeps(processor) == processor

clear_cache(processor) == [processor EXCEPT !.processed_signals = EmptyCache]

(***************************************************************************)
(* CSVExporter.export_signals                                              *)
(*                                                                         *)
(* A series is [time, value], two index-aligned arrays.  Interpolated      *)
(* values are exact fractions [n, d] with d > 0 in lowest terms.           *)
(***************************************************************************)
ExportKeys == <<"M1.S1", "M2.S1">>
ExportTimes == {0, 1, 2}
ExportValues == {10, 20}

\* the unit, message and signal that get_signal_data attaches to a key
SignalInfo(signal_key) ==
    IF signal_key = "M1.S1"
    THEN [unit |-> "rpm", message |-> "M1", signal |-> "S1"]
    ELSE [unit |-> "", message |-> "M2", signal |-> "S1"]

\* the arrays of a series, from its samples
SeriesOf(samples) ==
    [time  |-> [i \in 1..Len(samples) |-> samples[i][1]],
     value |-> [i \in 1..Len(samples) |-> samples[i][2]]]

SeriesInputs == {SeriesOf(q) : q \in SeqsUpTo(ExportTimes \X ExportValues, MaxSamples)}

SamplesIn(data) == IF data = None THEN 0 ELSE Len(data[1].time)

RECURSIVE TotalSamples(_, _)
TotalSamples(signal_data_dict, keys) ==
    IF keys = {} THEN 0
    ELSE LET k == CHOOSE k \in keys : TRUE
         IN  SamplesIn(signal_data_dict[k]) + TotalSamples(signal_data_dict, keys \ {k})

\* the signal_data_dicts with at most maxSamples samples in all
SignalDataDictsUpTo(maxSamples) ==
    UNION {{sdd \in [ks -> {None} \cup {Some(SeriesOf(q)) :
                                 q \in SeqsUpTo(ExportTimes \X ExportValues, maxSamples)}] :
                TotalSamples(sdd, ks) <= maxSamples} :
              ks \in SUBSET {ExportKeys[i] : i \in 1..Len(ExportKeys)}}

\* a signal_data_dict maps each key it holds to None or to a series
SignalDataDicts ==
    UNION {{sdd \in [ks -> {None} \cup {Some(sr) : sr \in SeriesInputs}] :
                TotalSamples(sdd, ks) <= MaxSamples} :
              ks \in SUBSET {ExportKeys[i] : i \in 1..Len(ExportKeys)}}

\* time_range is None or (start, end), which the caller has sorted
TimeRanges ==
    {None} \cup {Some(r) : r \in {p \in ExportTimes \X ExportTimes : p[1] <= p[2]}}

NoRequest == [signal_data_dict |-> [k \in {} |-> None], time_range |-> None]

NoExport == [calls |-> 0, ok |-> FALSE, columns |-> <<>>, unified_time |-> <<>>,
             interpolated |-> [k \in {} |-> <<>>], printed |-> ""]


\* boolean-mask indexing: time_array[mask], value_array[mask]
RECURSIVE MaskRange(_, _, _)
MaskRange(series, t_start, t_end) ==
    IF series.time = <<>> THEN series
    ELSE LET rest == MaskRange([time |-> Tail(series.time), value |-> Tail(series.value)],
                               t_start, t_end)
         IN  IF Head(series.time) >= t_start /\ Head(series.time) <= t_end
             THEN [time  |-> <<Head(series.time)>> \o rest.time,
                   value |-> <<Head(series.value)>> \o rest.value]
             ELSE rest

\* variant: the range is ignored
ApplyTimeRange_unfiltered(series, time_range) == series

\* "if time_range:" and the filter under it
ApplyTimeRange(series, time_range) ==
    IF time_range = None THEN series
    ELSE MaskRange(series, time_range[1][1], time_range[1][2])

\* the first loop: the keys that get a column, in dict order, with their
\* filtered arrays, and the concatenation of their timestamps
RECURSIVE CollectSignals(_, _, _, _)
CollectSignals(signal_data_dict, time_range, keys, acc) ==
    IF keys = <<>> THEN acc
    ELSE LET signal_key == Head(keys)
             skip == CollectSignals(signal_data_dict, time_range, Tail(keys), acc)
         IN  IF signal_key \notin DOMAIN signal_data_dict THEN skip
             ELSE IF signal_data_dict[signal_key] = None THEN skip
             ELSE LET filtered == ApplyTimeRange(signal_data_dict[signal_key][1], time_range)
                  IN  IF Len(filtered.time) = 0 THEN skip
                      ELSE CollectSignals(signal_data_dict, time_range, Tail(keys),
                              [columns |-> Append(acc.columns, signal_key),
                               signal_arrays |->
                                   [k \in DOMAIN acc.signal_arrays \cup {signal_key} |->
                                       IF k = signal_key THEN filtered
                                       ELSE acc.signal_arrays[k]],
                               all_times |-> acc.all_times \o filtered.time])

\* np.sort
RECURSIVE InsertSorted(_, _)
InsertSorted(x, sorted) ==
    IF sorted = <<>> THEN <<x>>
    ELSE IF x <= Head(sorted) THEN <<x>> \o sorted
    ELSE <<Head(sorted)>> \o InsertSorted(x, Tail(sorted))

RECURSIVE np_sort(_)
np_sort(a) == IF a = <<>> THEN <<>> ELSE InsertSorted(Head(a), np_sort(Tail(a)))

\* np.unique: sorts, then keeps an element when it differs from the one before
RECURSIVE DropRepeats(_)
DropRepeats(a) ==
    IF Len(a) <= 1 THEN a
    ELSE IF a[1] = a[2] THEN DropRepeats(Tail(a))
    ELSE <<a[1]>> \o DropRepeats(Tail(a))

\* variant: the array is sorted but repeated elements are kept
np_unique_keeps_repeats(a) == np_sort(a)

np_unique(a) == DropRepeats(np_sort(a))

\* unified_time = np.unique(np.sort(np.array(all_times)))
UnifiedTime(all_times) == np_unique(np_sort(all_times))

RECURSIVE Gcd(_, _)
Gcd(a, b) == IF b = 0 THEN a ELSE Gcd(b, a % b)

Abs(a) == IF a < 0 THEN -a ELSE a

Frac(n, d) ==
    LET g == Gcd(Abs(n), Abs(d))
        sgn == IF d < 0 THEN -1 ELSE 1
    IN  [n |-> sgn * (n \div g), d |-> sgn * (d \div g)]

\* numpy's search for arrays of at most four elements:
\* for (i = 1; i < len && key >= arr[i]; ++i); return i - 1
RECURSIVE LinearSearch(_, _, _)
LinearSearch(key, arr, i) ==
    IF i <= Len(arr) - 1 /\ key >= arr[i + 1]
    THEN LinearSearch(key, arr, i + 1)
    ELSE i - 1

\* np.interp for one x (0-based j as in numpy), default left and right
np_interp1(x, xp, fp) ==
    IF x > xp[Len(xp)] THEN Frac(fp[Len(fp)], 1)
    ELSE IF x < xp[1] THEN Frac(fp[1], 1)
    ELSE LET j == LinearSearch(x, xp, 1)
         IN  IF j = Len(xp) - 1 THEN Frac(fp[j + 1], 1)
             ELSE IF xp[j + 1] = x THEN Frac(fp[j + 1], 1)
             ELSE Frac(fp[j + 1] * (xp[j + 2] - xp[j + 1])
                          + (fp[j + 2] - fp[j + 1]) * (x - xp[j + 1]),
                       xp[j + 2] - xp[j + 1])

np_interp(x, xp, fp) == [i \in 1..Len(x) |-> np_interp1(x[i], xp, fp)]

\* f"{value:.6f}": the number in millionths, rounded to the nearest
Format6(q) == (2 * q.n * 1000000 + q.d) \div (2 * q.d)

\* the header cell of a column, as the pieces the f-strings join
ColumnName(info) ==
    (IF info.message # "" THEN <<info.message, ".", info.signal>> ELSE <<info.signal>>)
    \o (IF info.unit # "" THEN <<" (", info.unit, ")">> ELSE <<>>)

\* the rows written by csv.writer: header, then one row per unified timestamp
CsvContent(columns, unified_time, interpolated) ==
    [header |-> <<"Time (s)">> \o [c \in 1..Len(columns) |-> ColumnName(SignalInfo(columns[c]))],
     rows   |-> [i \in 1..Len(unified_time) |->
                    <<Format6(Frac(unified_time[i], 1))>>
                    \o [c \in 1..Len(columns) |-> Format6(interpolated[columns[c]][i])]]]

\* a CSV file that an earlier export left at the destination
OldCsvFile ==
    Some(CsvContent(<<"M2.S1">>, <<0>>, [k \in {"M2.S1"} |-> <<Frac(10, 1)>>]))

\* CSVExporter.export_signals: the value returned, the aligned table, the
\* destination file after the call and the message printed ("" for none)
export_signals(file, signal_data_dict, time_range, writable) ==
    LET failed(printed) ==
            [ok |-> FALSE, columns |-> <<>>, unified_time |-> <<>>,
             interpolated |-> [k \in {} |-> <<>>], file |-> file, printed |-> printed]
    IN  IF DOMAIN signal_data_dict = {} THEN failed("No signal data to export")
        ELSE
        LET collected == CollectSignals(signal_data_dict, time_range, ExportKeys,
                            [columns |-> <<>>, signal_arrays |-> [k \in {} |-> <<>>],
                             all_times |-> <<>>])
        IN  IF collected.columns = <<>> THEN failed("No valid signal data after filtering")
            ELSE
            LET unified_time == UnifiedTime(collected.all_times)
                interpolated ==
                    [k \in DOMAIN collected.signal_arrays |->
                        np_interp(unified_time, collected.signal_arrays[k].time,
                                  collected.signal_arrays[k].value)]
            IN  IF ~writable THEN failed("Error exporting to CSV")
                ELSE [ok |-> TRUE, columns |-> collected.columns,
                      unified_time |-> unified_time, interpolated |-> interpolated,
                      file |-> Some(CsvContent(collected.columns, unified_time, interpolated)),
                      printed |-> ""]

(***************************************************************************)
(* Cursors (gui/cursor_manager.py): cursor_positions maps the identifiers  *)
(* of the cursors that exist (1 and 2) to their positions.                 *)
(***************************************************************************)
CursorIds == {1, 2}
NoCursors == [c \in {} |-> 0]
CursorPositions == UNION {[cs -> ExportTimes] : cs \in SUBSET CursorIds}

\* variant: the positions in the order of the cursor identifiers
sorted_values_by_id(positions) ==
    IF DOMAIN positions = {} THEN <<>>
    ELSE IF DOMAIN positions = CursorIds THEN <<positions[1], positions[2]>>
    ELSE <<positions[CHOOSE c \in DOMAIN positions : TRUE]>>

\* sorted(cursor_positions.values())
sorted_values(positions) ==
    np_sort(IF DOMAIN positions = {} THEN <<>>
            ELSE IF DOMAIN positions = CursorIds THEN <<positions[1], positions[2]>>
            ELSE <<positions[CHOOSE c \in DOMAIN positions : TRUE]>>)

(***************************************************************************)
(* StatisticsWidget (gui/statistics_widget.py).  The label is the notice   *)
(* it shows, the range line and one entry per signal; numbers are as       *)
(* f"{x:.3f}" prints them, in thousandths.                                 *)
(***************************************************************************)
StatisticsWidget_init == [notice |-> "No cursors active", range |-> None, entries |-> <<>>]

\* f"{x:.3f}" of a fraction that is not negative
Format3(q) == (2 * q.n * 1000 + q.d) \div (2 * q.d)

\* the largest r with r * r <= n, searched between lo and hi
RECURSIVE IsqrtBetween(_, _, _)
IsqrtBetween(n, lo, hi) ==
    IF lo >= hi THEN lo
    ELSE LET mid == (lo + hi + 1) \div 2
         IN  IF mid * mid <= n THEN IsqrtBetween(n, mid, hi)
             ELSE IsqrtBetween(n, lo, mid - 1)

\* f"{x:.3f}" of the square root of a fraction
Format3Sqrt(q) == (IsqrtBetween((4 * 1000000 * q.n) \div q.d, 0, 40000) + 1) \div 2

RECURSIVE SumOf(_)
SumOf(a) == IF a = <<>> THEN 0 ELSE Head(a) + SumOf(Tail(a))

np_mean(a) == Frac(SumOf(a), Len(a))
np_max(a) == CHOOSE x \in {a[i] : i \in 1..Len(a)} : \A i \in 1..Len(a) : a[i] <= x
np_min(a) == CHOOSE x \in {a[i] : i \in 1..Len(a)} : \A i \in 1..Len(a) : x <= a[i]

\* the square of np.std: the mean of the squared distances from the mean
np_var(a) ==
    Frac(Len(a) * SumOf([i \in 1..Len(a) |-> a[i] * a[i]]) - SumOf(a) * SumOf(a),
         Len(a) * Len(a))

\* the name a signal is shown and stored under
FullName(info) ==
    IF info.message # "" THEN <<info.message, ".", info.signal>> ELSE <<info.signal>>

\* the loop over the signals: one entry for each series with a value in [t1, t2]
RECURSIVE StatisticsEntries(_, _, _, _)
StatisticsEntries(signal_data_dict, t1, t2, keys) ==
    IF keys = <<>> THEN <<>>
    ELSE LET signal_key == Head(keys)
             rest == StatisticsEntries(signal_data_dict, t1, t2, Tail(keys))
         IN  IF signal_key \notin DOMAIN signal_data_dict THEN rest
             ELSE IF signal_data_dict[signal_key] = None THEN rest
             ELSE LET values_in_range ==
                          MaskRange(signal_data_dict[signal_key][1], t1, t2).value
                  IN  IF Len(values_in_range) = 0 THEN rest
                      ELSE <<[full_name |-> FullName(SignalInfo(signal_key)),
                              unit      |-> SignalInfo(signal_key).unit,
                              avg       |-> Format3(np_mean(values_in_range)),
                              max_val   |-> Format3(Frac(np_max(values_in_range), 1)),
                              min_val   |-> Format3(Frac(np_min(values_in_range), 1)),
                              std_dev   |-> Format3Sqrt(np_var(values_in_range)),
                              samples   |-> Len(values_in_range)]>> \o rest

\* variant: one cursor is enough, and is both ends of the range
update_statistics_single(positions, signal_data_dict) ==
    IF DOMAIN positions = {}
    THEN [notice |-> "Add 2 cursors to view statistics", range |-> None, entries |-> <<>>]
    ELSE LET t1 == sorted_values(positions)[1]
             t2 == sorted_values(positions)[Len(sorted_values(positions))]
         IN  [notice |-> "", range |-> None,
              entries |-> StatisticsEntries(signal_data_dict, t1, t2, ExportKeys)]

\* StatisticsWidget.update_statistics: the label after the call
update_statistics(positions, signal_data_dict) ==
    IF Cardinality(DOMAIN positions) < 2
    THEN [notice |-> "Add 2 cursors to view statistics", range |-> None, entries |-> <<>>]
    ELSE LET t1 == sorted_values(positions)[1]
             t2 == sorted_values(positions)[2]
             range == Some([t1 |-> Format3(Frac(t1, 1)), t2 |-> Format3(Frac(t2, 1)),
                            duration |-> Format3(Frac(t2 - t1, 1))])
         IN  IF DOMAIN signal_data_dict = {}
             THEN [notice |-> "No signals selected", range |-> range, entries |-> <<>>]
             ELSE [notice |-> "", range |-> range,
                   entries |-> StatisticsEntries(signal_data_dict, t1, t2, ExportKeys)]

(***************************************************************************)
(* PartialDataExporter (utils/partial_exporter.py).  A JSON file is the    *)
(* document json.dump writes; a float is written as its repr, which        *)
(* json.load reads back as the same float.                                 *)
(***************************************************************************)
\* datetime.now().isoformat() at the time of a call
ExportDates == {"t1", "t2"}

\* variant: only the first number is written
tolist_first(a) == [i \in 1..(IF Len(a) > 0 THEN 1 ELSE 0) |-> [number |-> a[i]]]

\* ndarray.tolist() followed by json.dump: the JSON array of the numbers
tolist(a) == [i \in 1..Len(a) |-> [number |-> a[i]]]

\* json.load followed by np.array: the array of a JSON array of numbers
np_array(l) == [i \in 1..Len(l) |-> l[i].number]

\* the loop over the signals: export_data['signals']
RECURSIVE PartialSignals(_, _, _, _, _)
PartialSignals(signal_data_dict, t_start, t_end, keys, signals) ==
    IF keys = <<>> THEN signals
    ELSE LET signal_key == Head(keys)
             skip == PartialSignals(signal_data_dict, t_start, t_end, Tail(keys), signals)
         IN  IF signal_key \notin DOMAIN signal_data_dict THEN skip
             ELSE IF signal_data_dict[signal_key] = None THEN skip
             ELSE LET filtered == MaskRange(signal_data_dict[signal_key][1], t_start, t_end)
                      info == SignalInfo(signal_key)
                      full_key == FullName(info)
                      entry == [message |-> info.message, signal |-> info.signal,
                                unit |-> info.unit,
                                time |-> tolist(filtered.time),
                                value |-> tolist(filtered.value),
                                sample_count |-> Len(filtered.time)]
                  IN  IF Len(filtered.time) = 0 THEN skip
                      ELSE PartialSignals(signal_data_dict, t_start, t_end, Tail(keys),
                              [k \in DOMAIN signals \cup {full_key} |->
                                  IF k = full_key THEN entry ELSE signals[k]])

\* PartialDataExporter.export_time_range: the value returned and the
\* destination file after the call
export_time_range(file, signal_data_dict, time_range, metadata, now, writable) ==
    LET t_start == time_range[1]
        t_end == time_range[2]
        export_data ==
            [metadata |-> [blf_file |-> metadata.blf_file, dbc_file |-> metadata.dbc_file,
                           export_date |-> now, app_name |-> "CAN Data Viewer",
                           app_version |-> "1.1.0"],
             time_range |-> [start |-> [number |-> t_start], end |-> [number |-> t_end],
                             duration |-> [number |-> t_end - t_start]],
             signals |-> PartialSignals(signal_data_dict, t_start, t_end, ExportKeys,
                                        [k \in {} |-> <<>>])]
    IN  IF writable THEN [ok |-> TRUE, file |-> Some(export_data)]
        ELSE [ok |-> FALSE, file |-> file]

\* PartialDataExporter.load_partial_data: None, or the document with the
\* lists of every signal turned into arrays
load_partial_data(file) ==
    IF file = None THEN None
    ELSE Some([file[1] EXCEPT !.signals =
                  [k \in DOMAIN file[1].signals |->
                      [file[1].signals[k] EXCEPT !.time = np_array(@),
                                                 !.value = np_array(@)]]])

\* what the range export and the import have done: calls made, the value
\* returned, the dialog shown by the handler and the document loaded
NoPartial == [calls |-> 0, ok |-> FALSE, dialog |-> "", loaded |-> None]

(***************************************************************************)
(* GraphPanel (gui/graph_panel.py).  The panel holds four lists with one   *)
(* entry per graph: the plot widget, the curve drawn on it, the info of    *)
(* the signal shown and its arrays.  A plot widget is an object; it is     *)
(* named by the _create_graphs call that made it and its place.  Graph     *)
(* indices are counted from 0 as in the code, list places from 1.          *)
(***************************************************************************)
MAX_SIGNALS == 5

\* GraphPanel._create_graphs
create_graphs(panel, count) ==
    [panel EXCEPT !.created = @ + 1,
                  !.plot_widgets = [i \in 1..count |-> [made |-> panel.created + 1,
                                                        index |-> i - 1]],
                  !.plot_items = [i \in 1..count |-> None],
                  !.signal_info = [i \in 1..count |-> None],
                  !.signal_data = [i \in 1..count |-> None]]

\* GraphPanel.__init__ with init_ui
GraphPanel_init(max_graphs) ==
    create_graphs([max_graphs |-> max_graphs, current_graph_count |-> 1,
                   plot_widgets |-> <<>>, plot_items |-> <<>>, signal_info |-> <<>>,
                   signal_data |-> <<>>, created |-> 0],
                  1)

\* variant: an index beyond the graphs plots on the last graph
plot_signal_on_last(panel, index, time_data, value_data, signal_info) ==
    LET place == IF index >= Len(panel.plot_widgets) THEN Len(panel.plot_widgets)
                 ELSE index + 1
    IN  [panel EXCEPT !.plot_items[place] =
                            Some([on |-> panel.plot_widgets[place],
                                  time |-> time_data, value |-> value_data]),
                      !.signal_info[place] = Some(signal_info),
                      !.signal_data[place] =
                            Some([time |-> time_data, value |-> value_data])]

\* GraphPanel.plot_signal
plot_signal(panel, index, time_data, value_data, signal_info) ==
    IF index >= Len(panel.plot_widgets) THEN panel
    ELSE IF index < Len(panel.plot_items)
    THEN [panel EXCEPT !.plot_items[index + 1] =
                            Some([on |-> panel.plot_widgets[index + 1],
                                  time |-> time_data, value |-> value_data]),
                       !.signal_info[index + 1] = Some(signal_info),
                       !.signal_data[index + 1] =
                            Some([time |-> time_data, value |-> value_data])]
    ELSE panel

\* GraphPanel.clear_graph
clear_graph(panel, index) ==
    IF index >= Len(panel.plot_widgets) THEN panel
    ELSE [panel EXCEPT
            !.plot_items = IF index < Len(@) THEN [@ EXCEPT ![index + 1] = None] ELSE @,
            !.signal_info = IF index < Len(@) THEN [@ EXCEPT ![index + 1] = None] ELSE @,
            !.signal_data = IF index < Len(@) THEN [@ EXCEPT ![index + 1] = None] ELSE @]

\* GraphPanel.clear_all: clear_graph for every index below
\* len(plot_widgets) and then for every index below max_graphs; clear_graph
\* returns at once for an index from len(plot_widgets) on, and clears the
\* places of the three lists that exist
clear_all(panel) ==
    LET cleared(l) == [i \in 1..Len(l) |->
                         IF i <= Len(panel.plot_widgets) THEN None ELSE l[i]]
    IN  [panel EXCEPT !.plot_items = cleared(@),
                      !.signal_info = cleared(@),
                      !.signal_data = cleared(@)]

\* the list stored_data of set_graph_count: the graphs that show a signal,
\* in graph order
StoredData(panel) ==
    LET shown == SelectSeq([i \in 1..Len(panel.signal_data) |-> i],
                           LAMBDA i : panel.signal_data[i] # None)
    IN  [j \in 1..Len(shown) |->
            [time |-> panel.signal_data[shown[j]][1].time,
             value |-> panel.signal_data[shown[j]][1].value,
             info |-> panel.signal_info[shown[j]]]]

\* "for i, data in enumerate(stored_data): if i < count: plot_signal(...)"
RECURSIVE RestoreData(_, _, _, _)
RestoreData(panel, stored_data, i, count) ==
    IF i >= Len(stored_data) THEN panel
    ELSE RestoreData(IF i < count
                     THEN plot_signal(panel, i, stored_data[i + 1].time,
                                      stored_data[i + 1].value, stored_data[i + 1].info[1])
                     ELSE panel,
                     stored_data, i + 1, count)

\* variant: the check against the range 1..10 is lost
set_graph_count_unchecked(panel, count) ==
    IF count = panel.current_graph_count THEN panel
    ELSE RestoreData(create_graphs([panel EXCEPT !.current_graph_count = count], count),
                     StoredData(panel), 0, count)

\* GraphPanel.set_graph_count
set_graph_count(panel, count) ==
    IF count < 1 \/ count > 10 THEN panel
    ELSE IF count = panel.current_graph_count THEN panel
    ELSE RestoreData(create_graphs([panel EXCEPT !.current_graph_count = count], count),
                     StoredData(panel), 0, count)

\* the key under which get_signal_data files a signal
SignalKey(info) == <<info.message, ".", info.signal>>

\* GraphPanel.get_signal_data: a later graph with the same key replaces an
\* earlier one
get_signal_data(panel) ==
    LET shown == {i \in 1..Len(panel.signal_info) :
                     /\ panel.signal_info[i] # None
                     /\ i <= Len(panel.signal_data)
                     /\ panel.signal_data[i] # None}
        keys == {SignalKey(panel.signal_info[i][1]) : i \in shown}
        lastOf(key) == CHOOSE i \in shown :
                          /\ SignalKey(panel.signal_info[i][1]) = key
                          /\ \A j \in shown :
                                SignalKey(panel.signal_info[j][1]) = key => j <= i
    IN  [key \in keys |->
            [time |-> panel.signal_data[lastOf(key)][1].time,
             value |-> panel.signal_data[lastOf(key)][1].value,
             unit |-> panel.signal_info[lastOf(key)][1].unit,
             message |-> panel.signal_info[lastOf(key)][1].message,
             signal |-> panel.signal_info[lastOf(key)][1].signal]]

(***************************************************************************)
(* CursorManager (gui/cursor_manager.py).  A cursor is a list of lines,    *)
(* one InfiniteLine for each plot widget it was added to; a line knows     *)
(* the widget it is on and its position.  self.plot_widgets is the list    *)
(* object of the graph panel.                                              *)
(***************************************************************************)
\* the cursor manager the main window constructs on its graph panel
CursorManager_init ==
    [plot_widgets |-> GraphPanel_init(MAX_SIGNALS).plot_widgets,
     cursors |-> [c \in {} |-> <<>>]]

\* CursorManager.add_cursor
add_cursor(manager, cursor_id, position) ==
    IF cursor_id \in DOMAIN manager.cursors THEN manager
    ELSE [manager EXCEPT !.cursors =
            [c \in DOMAIN manager.cursors \cup {cursor_id} |->
                IF c = cursor_id
                THEN [i \in 1..Len(manager.plot_widgets) |->
                         [on |-> manager.plot_widgets[i], value |-> position]]
                ELSE manager.cursors[c]]]

\* CursorManager.remove_cursor
remove_cursor(manager, cursor_id) ==
    IF cursor_id \notin DOMAIN manager.cursors THEN manager
    ELSE [manager EXCEPT !.cursors =
            [c \in DOMAIN manager.cursors \ {cursor_id} |-> manager.cursors[c]]]

\* CursorManager.remove_all_cursors
remove_all_cursors(manager) == [manager EXCEPT !.cursors = [c \in {} |-> <<>>]]

\* CursorManager.get_cursor_positions
get_cursor_positions(manager) ==
    [c \in {d \in DOMAIN manager.cursors : manager.cursors[d] # <<>>} |->
        manager.cursors[c][1].value]

\* "for cursor_id, position in positions.items(): if cursor_id in colors:
\* self.add_cursor(...)", over the identifiers left in ids
RECURSIVE ReAddCursors(_, _, _)
ReAddCursors(manager, positions, ids) ==
    IF ids = {} THEN manager
    ELSE LET cursor_id == CHOOSE c \in ids : \A d \in ids : c <= d
         IN  ReAddCursors(IF cursor_id \in {1, 2}
                          THEN add_cursor(manager, cursor_id, positions[cursor_id])
                          ELSE manager,
                          positions, ids \ {cursor_id})

\* variant: the cursors are added again at the default position
update_plot_widgets_resetting(manager, plot_widgets) ==
    LET positions == [c \in DOMAIN get_cursor_positions(manager) |-> 0]
        removed == remove_all_cursors(manager)
    IN  ReAddCursors([removed EXCEPT !.plot_widgets = plot_widgets],
                     positions, DOMAIN positions)

\* CursorManager.update_plot_widgets
update_plot_widgets(manager, plot_widgets) ==
    LET positions == get_cursor_positions(manager)
        removed == remove_all_cursors(manager)
    IN  ReAddCursors([removed EXCEPT !.plot_widgets = plot_widgets],
                     positions, DOMAIN positions)

\* the user drags line k of a cursor to new_pos: the line takes the
\* position and, if that is a change, sigPositionChanged runs
\* CursorManager._on_cursor_moved, which sets every other line of the cursor
drag_line(manager, cursor_id, k, new_pos) ==
    IF manager.cursors[cursor_id][k].value = new_pos THEN manager
    ELSE [manager EXCEPT !.cursors[cursor_id] =
            [i \in 1..Len(@) |-> [@[i] EXCEPT !.value = new_pos]]]

(***************************************************************************)
(* SignalSelector (gui/signal_selector.py).  The tree holds one item per   *)
(* message and under it one item per signal; a signal item is checkable    *)
(* by the user when the log has frames of its message, and its check       *)
(* state is "none" (never set), "unchecked" or "checked".  The tree's      *)
(* itemChanged signal is connected to on_item_changed, so every call that  *)
(* changes an item of the tree runs on_item_changed before it returns.     *)
(* The operators work on [selector, emitted]: the selector and the lists   *)
(* that selection_changed has emitted so far, in order.                    *)
(***************************************************************************)
SignalSelector_init(max_signals) ==
    [max_signals |-> max_signals, tree |-> <<>>, selected_signals |-> <<>>]

\* the places <<message, signal>> of the signal items, in tree order
RECURSIVE ItemsFrom(_, _)
ItemsFrom(tree, m) ==
    IF m > Len(tree) THEN <<>>
    ELSE [g \in 1..Len(tree[m].signals) |-> <<m, g>>] \o ItemsFrom(tree, m + 1)

\* the dictionary on_item_changed builds from the data of a signal item
signal_info_of(tree, m, g) ==
    [message |-> tree[m].name, signal |-> tree[m].signals[g].name,
     unit |-> tree[m].signals[g].unit]

\* list.remove: the first entry equal to x is taken out
RECURSIVE ListRemove(_, _)
ListRemove(l, x) ==
    IF l = <<>> THEN l
    ELSE IF Head(l) = x THEN Tail(l)
    ELSE <<Head(l)>> \o ListRemove(Tail(l), x)

\* on_item_changed for an item that is not checked: the signal is removed
\* if it is selected, and selection_changed is emitted
item_unchecked(r, m, g) ==
    LET kept == ListRemove(r.selector.selected_signals,
                           signal_info_of(r.selector.tree, m, g))
    IN  [selector |-> [r.selector EXCEPT !.selected_signals = kept],
         emitted |-> Append(r.emitted, kept)]

\* variant: the limit is not looked at
on_item_changed_unlimited(r, m, g) ==
    IF r.selector.tree[m].signals[g].check = "checked"
    THEN LET added == Append(r.selector.selected_signals,
                             signal_info_of(r.selector.tree, m, g))
         IN  [selector |-> [r.selector EXCEPT !.selected_signals = added],
              emitted |-> Append(r.emitted, added)]
    ELSE item_unchecked(r, m, g)

\* SignalSelector.on_item_changed for the signal item at <<m, g>>.  At the
\* limit item.setCheckState(0, Qt.Unchecked) changes the item, which runs
\* on_item_changed again, for an unchecked item, before the warning
on_item_changed(r, m, g) ==
    IF r.selector.tree[m].signals[g].check = "checked"
    THEN IF Len(r.selector.selected_signals) >= r.selector.max_signals
         THEN item_unchecked(
                 [r EXCEPT !.selector.tree[m].signals[g].check = "unchecked"], m, g)
         ELSE LET added == Append(r.selector.selected_signals,
                                  signal_info_of(r.selector.tree, m, g))
              IN  [selector |-> [r.selector EXCEPT !.selected_signals = added],
                   emitted |-> Append(r.emitted, added)]
    ELSE item_unchecked(r, m, g)

\* QTreeWidgetItem.setCheckState on an item of the tree: itemChanged is
\* emitted unless the item already has that state
setCheckState(r, m, g, state) ==
    IF r.selector.tree[m].signals[g].check = state THEN r
    ELSE on_item_changed([r EXCEPT !.selector.tree[m].signals[g].check = state], m, g)

\* "sig_item.setCheckState(0, Qt.Unchecked)" for the items listed
RECURSIVE UncheckItems(_, _)
UncheckItems(r, items) ==
    IF items = <<>> THEN r
    ELSE UncheckItems(setCheckState(r, Head(items)[1], Head(items)[2], "unchecked"),
                      Tail(items))

\* SignalSelector.clear_selection
clear_selection(r) ==
    LET unchecked == UncheckItems(r, ItemsFrom(r.selector.tree, 1))
    IN  [selector |-> [unchecked.selector EXCEPT !.selected_signals = <<>>],
         emitted |-> Append(unchecked.emitted, <<>>)]

\* the first place in a list of named things that holds the name, or 0
FirstNamed(l, name) ==
    IF \E i \in 1..Len(l) : l[i].name = name
    THEN CHOOSE i \in 1..Len(l) : l[i].name = name /\ \A j \in 1..(i - 1) : l[j].name # name
    ELSE 0

\* the loop of set_selected_signals over the signals listed
RECURSIVE CheckItems(_, _)
CheckItems(r, signals) ==
    IF signals = <<>> THEN r
    ELSE IF Len(r.selector.selected_signals) >= r.selector.max_signals THEN r
    ELSE LET m == FirstNamed(r.selector.tree, Head(signals).message)
             g == IF m = 0 THEN 0
                  ELSE FirstNamed(r.selector.tree[m].signals, Head(signals).signal)
         IN  CheckItems(IF g = 0 THEN r ELSE setCheckState(r, m, g, "checked"),
                        Tail(signals))

\* SignalSelector.set_selected_signals
set_selected_signals(r, signals) == CheckItems(clear_selection(r), signals)

\* the calls of on_item_changed while load_messages makes the items
\* listed, three for each: for setData of the item's dictionary, then for
\* setFlags and setCheckState of an item with frames, or for setForeground
\* of both columns of one without.  The item is not checked at any of them
RECURSIVE ItemsMade(_, _)
ItemsMade(r, items) ==
    IF items = <<>> THEN r
    ELSE LET m == Head(items)[1]
             g == Head(items)[2]
         IN  ItemsMade(item_unchecked(item_unchecked(item_unchecked(r, m, g), m, g), m, g),
                       Tail(items))

\* SignalSelector.load_messages: the tree is built, and itemChanged fires
\* for its signal items
load_messages(r, messages, available_ids) ==
    LET tree ==
            [m \in 1..Len(messages) |->
                [name |-> messages[m].name, id |-> messages[m].id,
                 signals |-> [g \in 1..Len(messages[m].signals) |->
                                [name |-> messages[m].signals[g].name,
                                 unit |-> messages[m].signals[g].unit,
                                 checkable |-> messages[m].id \in available_ids,
                                 check |-> IF messages[m].id \in available_ids
                                           THEN "unchecked" ELSE "none"]]]]
    IN  ItemsMade([r EXCEPT !.selector.tree = tree], ItemsFrom(tree, 1))

(***************************************************************************)
(* MainWindow: the state after construction and the handlers               *)
(***************************************************************************)
\* what the last handler was, its arguments and what it returned
\* (cached: the cache held the requested key, or for clear_cache any key,
\* when the handler was entered)
NoCall == [op |-> "init", ok |-> TRUE, key |-> <<>>, ret |-> None,
           diag |-> "", decodes |-> 0, cached |-> FALSE]

Init ==
    /\ blf_reader = BLFReader_init
    /\ dbc_parser = DBCParser_init
    /\ blf_path = ""
    /\ dbc_path = ""
    /\ signal_processor = None
    /\ last = NoCall
    /\ loads = 0
    /\ request = NoRequest
    /\ export = NoExport
    /\ disk = None
    /\ cursor_positions = NoCursors
    /\ stats_label = StatisticsWidget_init
    /\ partial = NoPartial
    /\ signal_selector = SignalSelector_init(MAX_SIGNALS)
    /\ graph_panel = GraphPanel_init(MAX_SIGNALS)
    /\ cursor_manager = CursorManager_init
    /\ steps = 0

\* "for i, sig_info in enumerate(selected_signals)": process_signal and,
\* if it returns a series, plot_signal on graph i
RECURSIVE PlotEach(_, _, _, _, _)
PlotEach(w, selected_signals, i, reader, parser) ==
    IF i >= Len(selected_signals) THEN w
    ELSE LET sig_info == selected_signals[i + 1]
             r == process_signal(w.signal_processor[1], reader, parser,
                                 sig_info.message, sig_info.signal)
         IN  PlotEach([signal_processor |->
                          Some([w.signal_processor[1]
                                   EXCEPT !.processed_signals = r.processed_signals]),
                       graph_panel |->
                          IF r.ret # None
                          THEN plot_signal(w.graph_panel, i, r.ret[1].time,
                                           r.ret[1].value, sig_info)
                          ELSE w.graph_panel],
                      selected_signals, i + 1, reader, parser)

\* MainWindow.on_signal_selection_changed, the slot of selection_changed:
\* the processor and the graph panel after the call
on_signal_selection_changed(w, selected_signals, reader, parser) ==
    IF w.signal_processor = None THEN w
    ELSE PlotEach([w EXCEPT !.graph_panel = clear_all(@)],
                  selected_signals, 0, reader, parser)

\* the slot run for each list that selection_changed emitted, in order
RECURSIVE Deliver(_, _, _, _)
Deliver(w, emitted, reader, parser) ==
    IF emitted = <<>> THEN w
    ELSE Deliver(on_signal_selection_changed(w, Head(emitted), reader, parser),
                 Tail(emitted), reader, parser)

\* MainWindow.refresh_signal_list: the processor, the selector and the
\* graph panel after the call
refresh_signal_list(processor, selector, panel, reader, parser, blfPath, dbcPath) ==
    IF dbcPath # "" /\ blfPath # ""
    THEN LET loaded == load_messages([selector |-> selector, emitted |-> <<>>],
                                     get_messages(parser), get_unique_message_ids(reader))
             w == Deliver([signal_processor |-> Some(SignalProcessor_init),
                           graph_panel |-> panel],
                          loaded.emitted, reader, parser)
         IN  [signal_processor |-> w.signal_processor,
              signal_selector |-> loaded.selector,
              graph_panel |-> w.graph_panel]
    ELSE [signal_processor |-> processor, signal_selector |-> selector,
          graph_panel |-> panel]

\* what refresh_signal_list leaves alone when it is not called
Unrefreshed ==
    [signal_processor |-> signal_processor, signal_selector |-> signal_selector,
     graph_panel |-> graph_panel]

open_blf_file(filepath, file, maxLoads) ==
    /\ loads < maxLoads
    /\ \E loaded \in {BLF_load_file(blf_reader, filepath, file)} :
       \E refreshed \in {IF loaded.ok
                         THEN refresh_signal_list(signal_processor, signal_selector,
                                                  graph_panel, loaded.reader, dbc_parser,
                                                  filepath, dbc_path)
                         ELSE Unrefreshed} :
          /\ loads' = loads + 1
          /\ blf_reader' = loaded.reader
          /\ blf_path' = IF loaded.ok THEN filepath ELSE blf_path
          /\ signal_processor' = refreshed.signal_processor
          /\ signal_selector' = refreshed.signal_selector
          /\ graph_panel' = refreshed.graph_panel
          /\ last' = [NoCall EXCEPT !.op = "open_blf_file", !.ok = loaded.ok]
    /\ UNCHANGED <<dbc_parser, dbc_path, request, export, disk,
                   cursor_positions, stats_label, partial, cursor_manager, steps>>

open_dbc_file(filepath, file, maxLoads) ==
    /\ loads < maxLoads
    /\ \E loaded \in {DBC_load_file(dbc_parser, filepath, file)} :
       \E refreshed \in {IF loaded.ok
                         THEN refresh_signal_list(signal_processor, signal_selector,
                                                  graph_panel, blf_reader, loaded.parser,
                                                  blf_path, filepath)
                         ELSE Unrefreshed} :
          /\ loads' = loads + 1
          /\ dbc_parser' = loaded.parser
          /\ dbc_path' = IF loaded.ok THEN filepath ELSE dbc_path
          /\ signal_processor' = refreshed.signal_processor
          /\ signal_selector' = refreshed.signal_selector
          /\ graph_panel' = refreshed.graph_panel
          /\ last' = [NoCall EXCEPT !.op = "open_dbc_file", !.ok = loaded.ok]
    /\ UNCHANGED <<blf_reader, blf_path, request, export, disk,
                   cursor_positions, stats_label, partial, cursor_manager, steps>>

\* variant: a call that fails forgets the series cached for its key
ProcessSignal_forgetting(message_name, signal_name) ==
    /\ signal_processor # None
    /\ LET r == process_signal(signal_processor[1], blf_reader, dbc_parser,
                               message_name, signal_name)
           kept == IF r.ret # None THEN DOMAIN r.processed_signals
                   ELSE DOMAIN r.processed_signals \ {CacheKey(message_name, signal_name)}
       IN  /\ signal_processor' =
                Some([signal_processor[1] EXCEPT !.processed_signals =
                         [k \in kept |-> r.processed_signals[k]]])
           /\ last' = [op |-> "process_signal", ok |-> r.ret # None,
                       key |-> CacheKey(message_name, signal_name),
                       ret |-> r.ret, diag |-> r.diag, decodes |-> r.decodes,
                       cached |-> CacheKey(message_name, signal_name)
                                    \in DOMAIN signal_processor[1].processed_signals]
    /\ UNCHANGED <<blf_reader, dbc_parser, blf_path, dbc_path, loads, request, export, disk,
                   cursor_positions, stats_label, partial, widgets>>

\* one iteration of on_signal_selection_changed: a process_signal call
ProcessSignal(message_name, signal_name) ==
    /\ signal_processor # None
    /\ LET r == process_signal(signal_processor[1], blf_reader, dbc_parser,
                               message_name, signal_name)
       IN  /\ signal_processor' =
                Some([signal_processor[1] EXCEPT !.processed_signals = r.processed_signals])
           /\ last' = [op |-> "process_signal", ok |-> r.ret # None,
                       key |-> CacheKey(message_name, signal_name),
                       ret |-> r.ret, diag |-> r.diag, decodes |-> r.decodes,
                       cached |-> CacheKey(message_name, signal_name)
                                    \in DOMAIN signal_processor[1].processed_signals]
    /\ UNCHANGED <<blf_reader, dbc_parser, blf_path, dbc_path, loads, request, export, disk,
                   cursor_positions, stats_label, partial, widgets>>

ClearCache ==
    /\ signal_processor # None
    /\ signal_processor' = Some(clear_cache(signal_processor[1]))
    /\ last' = [NoCall EXCEPT !.op = "clear_cache",
                               !.cached = signal_processor[1].processed_signals # EmptyCache]
    /\ UNCHANGED <<blf_reader, dbc_parser, blf_path, dbc_path, loads, request, export, disk,
                   cursor_positions, stats_label, partial, widgets>>

OpenBlf ==
    \E filepath \in BlfPaths, file \in BlfFiles(MaxFrames) :
        open_blf_file(filepath, file, MaxLoads)
OpenDbc ==
    \E filepath \in DbcPaths : open_dbc_file(filepath, DbcFiles[filepath], MaxLoads)
Process == \E m \in MsgNames, s \in SigNames : ProcessSignal(m, s)

Next == OpenBlf \/ OpenDbc \/ Process \/ ClearCache

Spec == Init /\ [][Next]_vars

(***************************************************************************)
(* A longer session: files are loaded again, successfully or not, after    *)
(* signals were processed.  The logs are shorter so that more loads fit.   *)
(***************************************************************************)
ReopenBlf ==
    \E filepath \in BlfPaths, file \in BlfFiles(MaxSessionFrames) :
        open_blf_file(filepath, file, MaxSessionLoads)
ReopenDbc ==
    \E filepath \in DbcPaths : open_dbc_file(filepath, DbcFiles[filepath], MaxSessionLoads)

NextSession == ReopenBlf \/ ReopenDbc \/ Process \/ ClearCache

SpecSession == Init /\ [][NextSession]_vars

(***************************************************************************)
(* The exporter on its own: the arguments are fixed at the start and       *)
(* export_signals is called on them, to a destination that may or may not  *)
(* be writable.                                                            *)
(***************************************************************************)
\* number of export calls made on the same arguments
MaxExportCalls == 1

InitExport ==
    /\ blf_reader = BLFReader_init
    /\ dbc_parser = DBCParser_init
    /\ blf_path = ""
    /\ dbc_path = ""
    /\ signal_processor = None
    /\ last = NoCall
    /\ loads = 0
    /\ request \in [signal_data_dict : SignalDataDicts, time_range : TimeRanges]
    /\ export = NoExport
    /\ disk \in {None, OldCsvFile}
    /\ cursor_positions = NoCursors
    /\ stats_label = StatisticsWidget_init
    /\ partial = NoPartial
    /\ signal_selector = SignalSelector_init(MAX_SIGNALS)
    /\ graph_panel = GraphPanel_init(MAX_SIGNALS)
    /\ cursor_manager = CursorManager_init
    /\ steps = 0

\* variant: the destination is opened for writing before the data is looked at
ExportSignals_truncating(writable) ==
    /\ export.calls < MaxExportCalls
    /\ LET r == export_signals(disk, request.signal_data_dict, request.time_range, writable)
       IN  /\ export' = [calls |-> export.calls + 1, ok |-> r.ok, columns |-> r.columns,
                         unified_time |-> r.unified_time, interpolated |-> r.interpolated,
                         printed |-> r.printed]
           /\ disk' = IF r.ok \/ ~writable THEN r.file
                      ELSE Some([header |-> <<>>, rows |-> <<>>])
    /\ UNCHANGED <<blf_reader, dbc_parser, blf_path, dbc_path, signal_processor, last,
                   loads, request, cursor_positions, stats_label, partial, widgets>>

ExportSignals(writable) ==
    /\ export.calls < MaxExportCalls
    /\ LET r == export_signals(disk, request.signal_data_dict, request.time_range, writable)
       IN  /\ export' = [calls |-> export.calls + 1, ok |-> r.ok, columns |-> r.columns,
                         unified_time |-> r.unified_time, interpolated |-> r.interpolated,
                         printed |-> r.printed]
           /\ disk' = r.file
    /\ UNCHANGED <<blf_reader, dbc_parser, blf_path, dbc_path, signal_processor, last,
                   loads, request, cursor_positions, stats_label, partial, widgets>>

NextExport == \E writable \in BOOLEAN : ExportSignals(writable)

SpecExport == InitExport /\ [][NextExport]_vars

(***************************************************************************)
(* The statistics widget on its own: the displayed series and the cursors  *)
(* are fixed at the start and update_statistics is called on them.         *)
(***************************************************************************)
InitStats ==
    /\ blf_reader = BLFReader_init
    /\ dbc_parser = DBCParser_init
    /\ blf_path = ""
    /\ dbc_path = ""
    /\ signal_processor = None
    /\ last = NoCall
    /\ loads = 0
    /\ request \in [signal_data_dict : SignalDataDicts, time_range : {None}]
    /\ export = NoExport
    /\ disk = None
    /\ cursor_positions \in CursorPositions
    /\ stats_label = StatisticsWidget_init
    /\ partial = NoPartial
    /\ signal_selector = SignalSelector_init(MAX_SIGNALS)
    /\ graph_panel = GraphPanel_init(MAX_SIGNALS)
    /\ cursor_manager = CursorManager_init
    /\ steps = 0

\* MainWindow.update_statistics
UpdateStatistics ==
    /\ stats_label' = update_statistics(cursor_positions, request.signal_data_dict)
    /\ UNCHANGED <<blf_reader, dbc_parser, blf_path, dbc_path, signal_processor, last,
                   loads, request, export, disk, cursor_positions, partial, widgets>>

NextStats == UpdateStatistics

SpecStats == InitStats /\ [][NextStats]_vars

(***************************************************************************)
(* The range exporter on its own: export_time_range is called on fixed     *)
(* arguments, to a destination that may or may not be writable, and the    *)
(* destination is read back with load_partial_data.                        *)
(***************************************************************************)
NoMetadata == [blf_file |-> "", dbc_file |-> ""]

InitRange ==
    /\ blf_reader = BLFReader_init
    /\ dbc_parser = DBCParser_init
    /\ blf_path = ""
    /\ dbc_path = ""
    /\ signal_processor = None
    /\ last = NoCall
    /\ loads = 0
    /\ request \in [signal_data_dict : SignalDataDictsUpTo(MaxRangeSamples),
                     time_range : TimeRanges \ {None}]
    /\ export = NoExport
    /\ disk = None
    /\ cursor_positions = NoCursors
    /\ stats_label = StatisticsWidget_init
    /\ partial = NoPartial
    /\ signal_selector = SignalSelector_init(MAX_SIGNALS)
    /\ graph_panel = GraphPanel_init(MAX_SIGNALS)
    /\ cursor_manager = CursorManager_init
    /\ steps = 0

PartialExport(now, writable) ==
    /\ partial.calls < MaxExportCalls
    /\ LET r == export_time_range(disk, request.signal_data_dict, request.time_range[1],
                                  NoMetadata, now, writable)
       IN  /\ partial' = [calls |-> partial.calls + 1, ok |-> r.ok, dialog |-> "",
                          loaded |-> None]
           /\ disk' = r.file
    /\ UNCHANGED <<blf_reader, dbc_parser, blf_path, dbc_path, signal_processor, last,
                   loads, request, export, cursor_positions, stats_label, widgets>>

LoadPartialData ==
    /\ partial.calls > 0
    /\ partial' = [partial EXCEPT !.loaded = load_partial_data(disk)]
    /\ UNCHANGED <<blf_reader, dbc_parser, blf_path, dbc_path, signal_processor, last,
                   loads, request, export, disk, cursor_positions, stats_label, widgets>>

NextRange ==
    \/ \E now \in ExportDates, writable \in BOOLEAN : PartialExport(now, writable)
    \/ LoadPartialData

SpecRange == InitRange /\ [][NextRange]_vars

(***************************************************************************)
(* The main window's cursor handlers: statistics and the range export of   *)
(* the displayed series, with zero, one or two cursors.                    *)
(***************************************************************************)
InitCursors ==
    /\ blf_reader = BLFReader_init
    /\ dbc_parser = DBCParser_init
    /\ blf_path = "a.blf"
    /\ dbc_path = "a.dbc"
    /\ signal_processor = None
    /\ last = NoCall
    /\ loads = 0
    /\ request \in [signal_data_dict : SignalDataDictsUpTo(MaxRangeSamples),
                     time_range : {None}]
    /\ export = NoExport
    /\ disk = None
    /\ cursor_positions \in CursorPositions
    /\ stats_label = StatisticsWidget_init
    /\ partial = NoPartial
    /\ signal_selector = SignalSelector_init(MAX_SIGNALS)
    /\ graph_panel = GraphPanel_init(MAX_SIGNALS)
    /\ cursor_manager = CursorManager_init
    /\ steps = 0

\* MainWindow.export_time_range; filepath is None when the file dialog is
\* cancelled
ExportTimeRange(filepath, now, writable) ==
    /\ partial.calls < MaxExportCalls
    /\ IF DOMAIN request.signal_data_dict = {}
       THEN /\ partial' = [calls |-> partial.calls + 1, ok |-> FALSE,
                           dialog |-> "No Data", loaded |-> None]
            /\ disk' = disk
       ELSE IF Cardinality(DOMAIN cursor_positions) < 2
       THEN /\ partial' = [calls |-> partial.calls + 1, ok |-> FALSE,
                           dialog |-> "Need Cursors", loaded |-> None]
            /\ disk' = disk
       ELSE IF filepath = None
       THEN /\ partial' = [calls |-> partial.calls + 1, ok |-> FALSE,
                           dialog |-> "", loaded |-> None]
            /\ disk' = disk
       ELSE LET positions == sorted_values(cursor_positions)
                time_range == <<positions[1], positions[2]>>
                metadata == [blf_file |-> blf_path, dbc_file |-> dbc_path]
                r == export_time_range(disk, request.signal_data_dict, time_range,
                                       metadata, now, writable)
            IN  /\ partial' = [calls |-> partial.calls + 1, ok |-> r.ok,
                               dialog |-> IF r.ok THEN "Success" ELSE "Error",
                               loaded |-> None]
                /\ disk' = r.file
    /\ UNCHANGED <<blf_reader, dbc_parser, blf_path, dbc_path, signal_processor, last,
                   loads, request, export, cursor_positions, stats_label, widgets>>

NextCursors ==
    \/ UpdateStatistics
    \/ \E filepath \in {None, Some("out.json")}, now \in ExportDates, writable \in BOOLEAN :
          ExportTimeRange(filepath, now, writable)

SpecCursors == InitCursors /\ [][NextCursors]_vars

(***************************************************************************)
(* Both exporters called again and again on the same arguments and the     *)
(* same destination.  The caller's signal_data_dict is an object that the  *)
(* exporters could write to, so each call also yields the dictionary as    *)
(* the caller finds it afterwards, and last.key records the destination    *)
(* file as the call found it.                                              *)
(***************************************************************************)
\* number of export calls made on the same destination
MaxRepeats == 2

\* variant: the filtered arrays are stored back into the caller's entry
data_after_filter_in_place(data, time_range) ==
    IF data = None THEN data ELSE Some(ApplyTimeRange(data[1], time_range))

\* "time_array = time_array[mask]; value_array = value_array[mask]": the
\* mask builds new arrays and binds them to the local names, the entry
\* data of the caller's dictionary keeps the arrays it had
data_after_filter(data, time_range) == data

\* the caller's signal_data_dict after the loop over its items: no key is
\* added or deleted, each entry is as data_after_filter leaves it
signal_data_dict_after(signal_data_dict, time_range) ==
    [signal_key \in DOMAIN signal_data_dict |->
        data_after_filter(signal_data_dict[signal_key], time_range)]

InitExporters ==
    /\ blf_reader = BLFReader_init
    /\ dbc_parser = DBCParser_init
    /\ blf_path = ""
    /\ dbc_path = ""
    /\ signal_processor = None
    /\ last = NoCall
    /\ loads = 0
    /\ request \in [signal_data_dict : SignalDataDictsUpTo(MaxRangeSamples),
                     time_range : TimeRanges \ {None}]
    /\ export = NoExport
    /\ disk = None
    /\ cursor_positions = NoCursors
    /\ stats_label = StatisticsWidget_init
    /\ partial = NoPartial
    /\ signal_selector = SignalSelector_init(MAX_SIGNALS)
    /\ graph_panel = GraphPanel_init(MAX_SIGNALS)
    /\ cursor_manager = CursorManager_init
    /\ steps = 0

\* variant: the destination is opened for appending
CsvExport_appending(writable) ==
    /\ export.calls + partial.calls < MaxRepeats
    /\ LET r == export_signals(disk, request.signal_data_dict, request.time_range, writable)
       IN  /\ export' = [calls |-> export.calls + 1, ok |-> r.ok, columns |-> r.columns,
                         unified_time |-> r.unified_time, interpolated |-> r.interpolated,
                         printed |-> r.printed]
           /\ disk' = IF r.ok /\ disk # None /\ "rows" \in DOMAIN disk[1]
                      THEN Some([r.file[1] EXCEPT !.rows = disk[1].rows \o @])
                      ELSE r.file
           /\ last' = [NoCall EXCEPT !.op = "export_signals", !.ok = r.ok, !.key = disk]
           /\ request' = [request EXCEPT !.signal_data_dict =
                             signal_data_dict_after(@, request.time_range)]
    /\ UNCHANGED <<blf_reader, dbc_parser, blf_path, dbc_path, signal_processor,
                   loads, cursor_positions, stats_label, partial, widgets>>

\* CSVExporter.export_signals called on the request
CsvExport(writable) ==
    /\ export.calls + partial.calls < MaxRepeats
    /\ LET r == export_signals(disk, request.signal_data_dict, request.time_range, writable)
       IN  /\ export' = [calls |-> export.calls + 1, ok |-> r.ok, columns |-> r.columns,
                         unified_time |-> r.unified_time, interpolated |-> r.interpolated,
                         printed |-> r.printed]
           /\ disk' = r.file
           /\ last' = [NoCall EXCEPT !.op = "export_signals", !.ok = r.ok, !.key = disk]
           /\ request' = [request EXCEPT !.signal_data_dict =
                             signal_data_dict_after(@, request.time_range)]
    /\ UNCHANGED <<blf_reader, dbc_parser, blf_path, dbc_path, signal_processor,
                   loads, cursor_positions, stats_label, partial, widgets>>

\* PartialDataExporter.export_time_range called on the request, at the
\* wall-clock time now
RangeExport(now, writable) ==
    /\ export.calls + partial.calls < MaxRepeats
    /\ LET r == export_time_range(disk, request.signal_data_dict, request.time_range[1],
                                  NoMetadata, now, writable)
       IN  /\ partial' = [calls |-> partial.calls + 1, ok |-> r.ok, dialog |-> "",
                          loaded |-> None]
           /\ disk' = r.file
           /\ last' = [NoCall EXCEPT !.op = "export_time_range", !.ok = r.ok, !.key = disk]
           /\ request' = [request EXCEPT !.signal_data_dict =
                             signal_data_dict_after(@, request.time_range)]
    /\ UNCHANGED <<blf_reader, dbc_parser, blf_path, dbc_path, signal_processor,
                   loads, export, cursor_positions, stats_label, widgets>>

NextExporters ==
    \/ \E writable \in BOOLEAN : CsvExport(writable)
    \/ \E now \in ExportDates, writable \in BOOLEAN : RangeExport(now, writable)

SpecExporters == InitExporters /\ [][NextExporters]_vars

(***************************************************************************)
(* The widgets in use.  steps counts the operations made on them.          *)
(***************************************************************************)
\* what a handler of the widgets leaves alone
data_layer == <<blf_reader, dbc_parser, blf_path, dbc_path, loads, request, export, disk,
                cursor_positions, stats_label, partial>>

\* the processor and the graph panel as the slot of selection_changed
\* leaves them, after a call on the selector that ended in r
Delivered(r) ==
    Deliver([signal_processor |-> signal_processor, graph_panel |-> graph_panel],
            r.emitted, blf_reader, dbc_parser)

\* the user clicks the check box of the signal item at <<m, g>>
ToggleItem(m, g, maxSteps) ==
    /\ steps < maxSteps
    /\ m \in 1..Len(signal_selector.tree)
    /\ g \in 1..Len(signal_selector.tree[m].signals)
    /\ signal_selector.tree[m].signals[g].checkable
    /\ LET item == signal_selector.tree[m].signals[g]
           r == setCheckState([selector |-> signal_selector, emitted |-> <<>>], m, g,
                              IF item.check = "checked" THEN "unchecked" ELSE "checked")
       IN  /\ signal_selector' = r.selector
           /\ signal_processor' = Delivered(r).signal_processor
           /\ graph_panel' = Delivered(r).graph_panel
           /\ last' = [NoCall EXCEPT !.op = IF item.check = "checked" THEN "uncheck"
                                            ELSE "check",
                                     !.key = <<m, g>>]
    /\ steps' = steps + 1
    /\ UNCHANGED <<data_layer, cursor_manager>>

\* the Clear Selection button
ClearSelection(maxSteps) ==
    /\ steps < maxSteps
    /\ LET r == clear_selection([selector |-> signal_selector, emitted |-> <<>>])
       IN  /\ signal_selector' = r.selector
           /\ signal_processor' = Delivered(r).signal_processor
           /\ graph_panel' = Delivered(r).graph_panel
    /\ last' = [NoCall EXCEPT !.op = "clear_selection"]
    /\ steps' = steps + 1
    /\ UNCHANGED <<data_layer, cursor_manager>>

\* SignalSelector.set_selected_signals called with a list of signals
SetSelectedSignals(signals, maxSteps) ==
    /\ steps < maxSteps
    /\ LET r == set_selected_signals([selector |-> signal_selector, emitted |-> <<>>],
                                     signals)
       IN  /\ signal_selector' = r.selector
           /\ signal_processor' = Delivered(r).signal_processor
           /\ graph_panel' = Delivered(r).graph_panel
    /\ last' = [NoCall EXCEPT !.op = "set_selected_signals"]
    /\ steps' = steps + 1
    /\ UNCHANGED <<data_layer, cursor_manager>>

\* SignalSelector.load_messages called with a list of messages
LoadMessages(messages, available_ids, maxSteps) ==
    /\ steps < maxSteps
    /\ LET r == load_messages([selector |-> signal_selector, emitted |-> <<>>],
                              messages, available_ids)
       IN  /\ signal_selector' = r.selector
           /\ signal_processor' = Delivered(r).signal_processor
           /\ graph_panel' = Delivered(r).graph_panel
    /\ last' = [NoCall EXCEPT !.op = "load_messages"]
    /\ steps' = steps + 1
    /\ UNCHANGED <<data_layer, cursor_manager>>

\* MainWindow.on_graph_count_changed
on_graph_count_changed(count, maxSteps) ==
    /\ steps < maxSteps
    /\ LET panel == set_graph_count(graph_panel, count)
           selected_signals == signal_selector.selected_signals
           w == [signal_processor |-> signal_processor, graph_panel |-> panel]
           replotted == IF selected_signals # <<>> /\ signal_processor # None
                        THEN on_signal_selection_changed(w, selected_signals,
                                                         blf_reader, dbc_parser)
                        ELSE w
       IN  /\ cursor_manager' =
                update_plot_widgets([cursor_manager EXCEPT !.plot_widgets =
                                        panel.plot_widgets],
                                    panel.plot_widgets)
           /\ signal_processor' = replotted.signal_processor
           /\ graph_panel' = replotted.graph_panel
    /\ last' = [NoCall EXCEPT !.op = "on_graph_count_changed", !.key = <<count>>]
    /\ steps' = steps + 1
    /\ UNCHANGED <<data_layer, signal_selector>>

(***************************************************************************)
(* The graph panel on its own: its methods called in any order.            *)
(***************************************************************************)
\* number of calls made on the panel
MaxPanelSteps == 4

\* graph indices asked for
GraphIndices == {0, 1, 2, 9, 10}

\* the cursor manager's plot_widgets is the panel's list
PanelStep(panel, op, key) ==
    /\ steps < MaxPanelSteps
    /\ graph_panel' = panel
    /\ cursor_manager' = [cursor_manager EXCEPT !.plot_widgets = panel.plot_widgets]
    /\ last' = [NoCall EXCEPT !.op = op, !.key = key]
    /\ steps' = steps + 1
    /\ UNCHANGED <<data_layer, signal_selector, signal_processor>>

\* the counts asked for are below the range, in it, at its end and above it
NextPanel ==
    \/ \E count \in {0, 1, 2, 3, 10, 11} :
          PanelStep(set_graph_count(graph_panel, count), "set_graph_count", <<count>>)
    \/ \E index \in GraphIndices,
           info \in { [message |-> "M1", signal |-> "S1", unit |-> "rpm"],
                      [message |-> "M2", signal |-> "S1", unit |-> ""] } :
          PanelStep(plot_signal(graph_panel, index, <<0, 1>>, <<10, 20>>, info),
                    "plot_signal", <<index>>)
    \/ \E index \in GraphIndices :
          PanelStep(clear_graph(graph_panel, index), "clear_graph", <<index>>)
    \/ PanelStep(clear_all(graph_panel), "clear_all", <<>>)

SpecPanel == Init /\ [][NextPanel]_vars

(***************************************************************************)
(* The cursor manager: cursors are added, dragged and removed, and the     *)
(* number of graphs changes under them.                                    *)
(***************************************************************************)
\* number of operations made on the cursors
MaxCursorSteps == 4

CursorStep(manager, op, key) ==
    /\ steps < MaxCursorSteps
    /\ cursor_manager' = manager
    /\ last' = [NoCall EXCEPT !.op = op, !.key = key]
    /\ steps' = steps + 1
    /\ UNCHANGED <<data_layer, signal_selector, signal_processor, graph_panel>>

NextCursorManager ==
    \/ \E cursor_id \in CursorIds, position \in ExportTimes :
          CursorStep(add_cursor(cursor_manager, cursor_id, position), "add_cursor",
                     <<cursor_id, position>>)
    \/ \E cursor_id \in CursorIds :
          CursorStep(remove_cursor(cursor_manager, cursor_id), "remove_cursor",
                     <<cursor_id>>)
    \/ \E cursor_id \in CursorIds, k \in 1..3, new_pos \in ExportTimes :
          /\ cursor_id \in DOMAIN cursor_manager.cursors
          /\ k \in 1..Len(cursor_manager.cursors[cursor_id])
          /\ CursorStep(drag_line(cursor_manager, cursor_id, k, new_pos), "drag_line",
                        <<cursor_id, k, new_pos>>)
    \/ \E count \in 1..3 : on_graph_count_changed(count, MaxCursorSteps)

SpecCursorManager == Init /\ [][NextCursorManager]_vars

(***************************************************************************)
(* The signal selector on its own: messages are loaded into it and items   *)
(* are checked and unchecked.  The lists have more signals than the        *)
(* selector lets the user select.                                          *)
(***************************************************************************)
\* number of operations made on the selector
MaxSelectorSteps == 7

\* two messages of three signals each
WideMessages ==
    << [name |-> "M1", id |-> 1,
        signals |-> << [name |-> "S1", unit |-> "rpm"], [name |-> "S2", unit |-> ""],
                       [name |-> "S3", unit |-> ""] >>],
       [name |-> "M2", id |-> 2,
        signals |-> << [name |-> "S1", unit |-> ""], [name |-> "S2", unit |-> ""],
                       [name |-> "S3", unit |-> ""] >>] >>

\* the lists of selected signals a workspace file can hold: more signals
\* than the limit, a signal twice, and a signal that no message has
SavedSelections ==
    { [i \in 1..6 |-> [message |-> WideMessages[((i - 1) \div 3) + 1].name,
                       signal |-> WideMessages[((i - 1) \div 3) + 1].signals[((i - 1) % 3) + 1].name,
                       unit |-> WideMessages[((i - 1) \div 3) + 1].signals[((i - 1) % 3) + 1].unit]],
      << [message |-> "M2", signal |-> "S2", unit |-> ""],
         [message |-> "M2", signal |-> "S2", unit |-> ""],
         [message |-> "M2", signal |-> "S9", unit |-> ""] >> }

NextSelector ==
    \/ \E available_ids \in {{1, 2}, {1}} :
          LoadMessages(WideMessages, available_ids, MaxSelectorSteps)
    \/ \E m \in 1..2, g \in 1..3 : ToggleItem(m, g, MaxSelectorSteps)
    \/ ClearSelection(MaxSelectorSteps)
    \/ \E signals \in SavedSelections : SetSelectedSignals(signals, MaxSelectorSteps)

SpecSelector == Init /\ [][NextSelector]_vars

(***************************************************************************)
(* The main window in use: files are opened and opened again while         *)
(* signals are selected and the number of graphs changes.                  *)
(***************************************************************************)
\* number of files opened
MaxGuiLoads == 3
\* number of operations made on the widgets
MaxGuiSteps == 3

\* the DBC files on disk: empty.dbc parses and defines no message
GuiDbcFiles == [filepath \in {"a.dbc", "b.dbc", "empty.dbc"} |->
                   IF filepath = "a.dbc" THEN Some(DbA)
                   ELSE IF filepath = "b.dbc" THEN Some(DbB)
                   ELSE Some({})]

\* the BLF files on disk: one with frames of message 1, one with a frame of
\* message 2, and one that raises after its frames are read
GuiBlfFiles ==
    { [frames |-> << [timestamp |-> 1, arbitration_id |-> 1, data |-> <<0>>],
                     [timestamp |-> 2, arbitration_id |-> 1, data |-> <<1>>] >>,
       raises |-> FALSE],
      [frames |-> << [timestamp |-> 1, arbitration_id |-> 2, data |-> <<1>>] >>,
       raises |-> FALSE],
      [frames |-> << [timestamp |-> 1, arbitration_id |-> 2, data |-> <<1>>] >>,
       raises |-> TRUE] }

NextGui ==
    \/ \E file \in GuiBlfFiles : open_blf_file("a.blf", file, MaxGuiLoads)
    \/ \E filepath \in DOMAIN GuiDbcFiles :
          open_dbc_file(filepath, GuiDbcFiles[filepath], MaxGuiLoads)
    \/ \E m \in 1..2, g \in 1..2 : ToggleItem(m, g, MaxGuiSteps)
    \/ ClearSelection(MaxGuiSteps)
    \/ \E count \in 1..2 : on_graph_count_changed(count, MaxGuiSteps)

SpecGui == Init /\ [][NextGui]_vars

(***************************************************************************)
(* Properties                                                              *)
(***************************************************************************)
Cache == signal_processor[1].processed_signals

IsProcessCall == last.op = "process_signal"

RequestedMessage == get_message_by_name(dbc_parser, last.key[1])

\* the frames of the log that carry the requested message's identifier, and
\* among them those whose decode succeeds and yields the requested signal
MatchingFrames ==
    SelectSeq(blf_reader.messages,
              LAMBDA f : f.arbitration_id = RequestedMessage[1].frame_id)

Yields(f) ==
    LET decoded == decode_message(dbc_parser, f.arbitration_id, f.data)
    IN  decoded # None /\ last.key[2] \in DOMAIN decoded[1]

SurvivingFrames == SelectSeq(MatchingFrames, Yields)

NonDecreasing(q) == \A i \in 1..Len(q) - 1 : q[i] <= q[i + 1]

\* C1: between invalidations a key is decoded at most once: a process_signal
\* call for a key that is already cached makes no decode_message call and
\* returns the cached series.
C1_CachedKeyNotDecodedAgain ==
    [][(last'.op = "process_signal" /\ signal_processor # None
            /\ last'.key \in DOMAIN Cache)
        => (last'.decodes = 0 /\ last'.ret = Some(Cache[last'.key]))]_vars

\* C2: every series returned or cached has as many timestamps as values and
\* its timestamps are non-decreasing, whatever frame log was loaded.
C2_SeriesAlignedAndNonDecreasing ==
    /\ signal_processor # None =>
          \A k \in DOMAIN Cache :
              /\ Len(Cache[k].time) = Len(Cache[k].value)
              /\ NonDecreasing(Cache[k].time)
    /\ last.ret # None =>
          /\ Len(last.ret[1].time) = Len(last.ret[1].value)
          /\ NonDecreasing(last.ret[1].time)

\* C3: the series holds exactly one (timestamp, value) sample per frame that
\* has the message's identifier and decodes to the requested signal, in frame
\* order; the other frames add nothing, and the call succeeds as soon as one
\* frame survives.
C3_OneSamplePerSurvivingFrame ==
    (IsProcessCall /\ RequestedMessage # None /\ SurvivingFrames # <<>>) =>
        /\ last.ret # None
        /\ last.ret[1].time =
              [i \in 1..Len(SurvivingFrames) |-> SurvivingFrames[i].timestamp]
        /\ last.ret[1].value =
              [i \in 1..Len(SurvivingFrames) |->
                  decode_message(dbc_parser, SurvivingFrames[i].arbitration_id,
                                 SurvivingFrames[i].data)[1][last.key[2]]]

\* C3 witness: a successful call that skipped at least one matching frame
C3_Witness ==
    /\ IsProcessCall /\ last.ret # None /\ RequestedMessage # None
    /\ Len(SurvivingFrames) >= 1
    /\ Len(MatchingFrames) > Len(SurvivingFrames)

\* C4: process_signal never yields an empty series: when the message is known
\* but no frame carries its identifier, or no matching frame decodes to the
\* signal, the call returns None and stores nothing under the key; no cached
\* series is ever empty.
C4_NoEmptySeries ==
    [][(last'.op = "process_signal" /\ signal_processor # None) =>
        LET message == get_message_by_name(dbc_parser, last'.key[1])
            nothing ==
                \A i \in 1..Len(blf_reader.messages) :
                    LET f == blf_reader.messages[i]
                        decoded == decode_message(dbc_parser, f.arbitration_id, f.data)
                    IN  f.arbitration_id = message[1].frame_id =>
                            (decoded = None \/ last'.key[2] \notin DOMAIN decoded[1])
            after == signal_processor'[1].processed_signals
        IN  /\ (message # None /\ nothing) =>
                  /\ last'.ret = None
                  /\ last'.key \in DOMAIN after =>
                        (last'.key \in DOMAIN Cache /\ after[last'.key] = Cache[last'.key])
            /\ last'.ret # Some([time |-> <<>>, value |-> <<>>])
            /\ \A k \in DOMAIN after : after[k].time # <<>> /\ after[k].value # <<>>]_vars

\* C4 witness: a call whose matching frames all failed to yield the signal
C4_Witness ==
    /\ IsProcessCall /\ last.ret = None /\ RequestedMessage # None
    /\ MatchingFrames # <<>> /\ SurvivingFrames = <<>>
    /\ last.key \notin DOMAIN Cache

\* the cause of a failure, as the error taxonomy names it
Cause(message_name, signal_name) ==
    LET message == get_message_by_name(dbc_parser, message_name)
    IN  IF message = None THEN "DefinitionNotFound"
        ELSE IF \A i \in 1..Len(blf_reader.messages) :
                    blf_reader.messages[i].arbitration_id # message[1].frame_id
             THEN "NoMatchingFrames"
        ELSE IF signal_name \notin {sg.name : sg \in message[1].signals}
             THEN "SignalNotInMessage"
        ELSE "Other"

ReturnOf(key) ==
    process_signal(signal_processor[1], blf_reader, dbc_parser, key[1], key[2]).ret

C6_FailedBlfLoadKeepsStore ==
    [][(last'.op = "open_blf_file" /\ ~last'.ok) => blf_reader' = blf_reader]_vars

\* C7: a failed schema load leaves the database and the file path reported
\* by get_file_info as they were before the call.
C7_FailedDbcLoadKeepsCatalog ==
    [][(last'.op = "open_dbc_file" /\ ~last'.ok) =>
        /\ dbc_parser'.database = dbc_parser.database
        /\ DBC_get_file_info(dbc_parser').filepath = DBC_get_file_info(dbc_parser).filepath]_vars

\* C8: clear_cache removes every cached series (get_cached_signal returns
\* None for every key) and changes neither the frames nor the definitions.
C8_ClearCacheEmptiesOnlyCache ==
    [][last'.op = "clear_cache" =>
        /\ \A k \in Keys : get_cached_signal(signal_processor'[1], k[1], k[2]) = None
        /\ blf_reader' = blf_reader
        /\ dbc_parser' = dbc_parser]_vars

\* C8 witness: clear_cache was called on a cache that held a series
C8_Witness ==
    /\ last.op = "clear_cache" /\ last.cached
    /\ blf_reader.messages # <<>> /\ dbc_parser.database # None

IsReload(call) == call.op \in {"open_blf_file", "open_dbc_file"} /\ call.ok

\* C9: after a reload of either file the cache holds no series of the files
\* loaded before, and a cached series goes away only by such a reload or by
\* clear_cache.
C9_DiscardOnlyByReloadOrClear ==
    [][ /\ (IsReload(last') /\ signal_processor' # None) =>
              signal_processor'[1].processed_signals = EmptyCache
        /\ signal_processor # None =>
              \A k \in DOMAIN Cache :
                  \/ /\ signal_processor' # None
                     /\ k \in DOMAIN signal_processor'[1].processed_signals
                     /\ signal_processor'[1].processed_signals[k] = Cache[k]
                  \/ IsReload(last')
                  \/ last'.op = "clear_cache" ]_vars

\* the timestamps of a requested series that lie inside the requested range
TimesInRange(signal_key) ==
    LET data == request.signal_data_dict[signal_key]
    IN  IF data = None THEN {}
        ELSE {data[1].time[i] : i \in 1..Len(data[1].time)}
             \cap {t \in ExportTimes :
                     request.time_range # None =>
                         /\ request.time_range[1][1] <= t
                         /\ t <= request.time_range[1][2]}

StrictlyAscending(q) == \A i \in 1..Len(q) - 1 : q[i] < q[i + 1]

\* C10: the unified time base of an export is strictly ascending, holds no
\* timestamp twice and is, as a set, the union of the timestamps that the
\* requested series have inside the range.
C10_UnifiedTimeIsSortedUnion ==
    (export.calls > 0 /\ export.ok) =>
        /\ StrictlyAscending(export.unified_time)
        /\ {export.unified_time[i] : i \in 1..Len(export.unified_time)}
              = UNION {TimesInRange(k) : k \in DOMAIN request.signal_data_dict}

\* C10 witness: two series with a common timestamp were merged under a range
\* that cut a sample off
C10_Witness ==
    /\ export.calls > 0 /\ export.ok
    /\ Len(export.columns) = 2
    /\ TimesInRange("M1.S1") \cap TimesInRange("M2.S1") # {}
    /\ request.time_range # None
    /\ \E i \in 1..Len(request.signal_data_dict["M1.S1"][1].time) :
          request.signal_data_dict["M1.S1"][1].time[i] \notin TimesInRange("M1.S1")

\* the samples of a requested series that lie inside the requested range, as
\* the indices they have in the series
InRange(t) ==
    request.time_range # None =>
        (request.time_range[1][1] <= t /\ t <= request.time_range[1][2])

SeriesIn(signal_key) == request.signal_data_dict[signal_key][1]

HasSeries(signal_key) ==
    /\ signal_key \in DOMAIN request.signal_data_dict
    /\ request.signal_data_dict[signal_key] # None

IndicesInRange(signal_key) ==
    SelectSeq([i \in 1..Len(SeriesIn(signal_key).time) |-> i],
              LAMBDA i : InRange(SeriesIn(signal_key).time[i]))

Exported == export.calls > 0 /\ export.ok

\* C11: in a successful export, at every in-range timestamp of a series the
\* column of that series holds the value the series has at that sample.
C11_KnotValuesExact ==
    Exported =>
        \A k \in DOMAIN request.signal_data_dict :
            HasSeries(k) =>
                \A i \in 1..Len(SeriesIn(k).time) :
                    InRange(SeriesIn(k).time[i]) =>
                        /\ k \in DOMAIN export.interpolated
                        /\ \A j \in 1..Len(export.unified_time) :
                              export.unified_time[j] = SeriesIn(k).time[i] =>
                                  export.interpolated[k][j] = Frac(SeriesIn(k).value[i], 1)

\* C12: in a successful export, a column's value at a unified timestamp that
\* lies strictly between two neighbouring in-range samples of its series is
\* the linear interpolation of the two, before the first in-range sample
\* it is the first value and after the last in-range sample the last value.
C12_ColumnIsInterpolateWithClamp ==
    Exported =>
        \A c \in 1..Len(export.columns) :
            LET k  == export.columns[c]
                ix == IndicesInRange(k)
                xs == [m \in 1..Len(ix) |-> SeriesIn(k).time[ix[m]]]
                fs == [m \in 1..Len(ix) |-> SeriesIn(k).value[ix[m]]]
            IN  \A j \in 1..Len(export.unified_time) :
                    LET x == export.unified_time[j]
                        v == export.interpolated[k][j]
                    IN  /\ \A m \in 1..Len(xs) - 1 :
                              (xs[m] < x /\ x < xs[m + 1]) =>
                                  v = Frac(fs[m] * (xs[m + 1] - xs[m])
                                              + (fs[m + 1] - fs[m]) * (x - xs[m]),
                                           xs[m + 1] - xs[m])
                        /\ x < xs[1] => v = Frac(fs[1], 1)
                        /\ x > xs[Len(xs)] => v = Frac(fs[Len(fs)], 1)

\* the request with every series cut down to its in-range samples
Prefiltered ==
    [k \in DOMAIN request.signal_data_dict |->
        IF request.signal_data_dict[k] = None THEN None
        ELSE LET ix == IndicesInRange(k)
             IN  Some([time  |-> [m \in 1..Len(ix) |-> SeriesIn(k).time[ix[m]]],
                       value |-> [m \in 1..Len(ix) |-> SeriesIn(k).value[ix[m]]]])]

KeysWithSampleInRange ==
    {k \in DOMAIN request.signal_data_dict : HasSeries(k) /\ IndicesInRange(k) # <<>>}

\* C13: a successful export under a range has one column for exactly the
\* series with a sample at start <= t <= end, and its unified base and
\* columns are those of an export, without range, of the in-range samples.
C13_RangeFilterInclusive ==
    (Exported /\ request.time_range # None) =>
        /\ {export.columns[c] : c \in 1..Len(export.columns)} = KeysWithSampleInRange
        /\ Len(export.columns) = Cardinality(KeysWithSampleInRange)
        /\ LET r == export_signals(None, Prefiltered, None, TRUE)
           IN  /\ r.columns = export.columns
               /\ r.unified_time = export.unified_time
               /\ r.interpolated = export.interpolated

\* C13 witness: a range whose start is a sample of the first series cut an
\* earlier sample of it off and left the second series without a column
C13_Witness ==
    /\ Exported /\ request.time_range # None
    /\ export.columns = <<"M1.S1">>
    /\ HasSeries("M2.S1") /\ SeriesIn("M2.S1").time # <<>>
    /\ \E i, j \in 1..Len(SeriesIn("M1.S1").time) :
          /\ SeriesIn("M1.S1").time[i] = request.time_range[1][1]
          /\ SeriesIn("M1.S1").time[j] < request.time_range[1][1]

NoSampleInRange == KeysWithSampleInRange = {}

\* C14: an export call for which no series has a sample (an empty mapping,
\* or no sample inside the range) fails and leaves the destination as it was.
C14_NoSampleNoFile ==
    [][(export'.calls > export.calls /\ NoSampleInRange)
          => (~export'.ok /\ disk' = disk)]_vars

\* C14 witness: an export of a series with samples, none of them in the
\* range, was called on a destination that held a file
C14_Witness ==
    /\ export.calls > 0 /\ NoSampleInRange
    /\ \E k \in DOMAIN request.signal_data_dict :
          HasSeries(k) /\ SeriesIn(k).time # <<>>
    /\ disk = OldCsvFile

\* C15: a range export for which no series has a sample inside the range
\* (or whose mapping is empty) does not report success.
C15_RangeExportFailsWithoutData ==
    (partial.calls > 0 /\ NoSampleInRange) => ~partial.ok

\* the requested series with samples that a table export left out
Dropped ==
    {k \in DOMAIN request.signal_data_dict :
        /\ HasSeries(k) /\ SeriesIn(k).time # <<>>
        /\ k \notin {export.columns[c] : c \in 1..Len(export.columns)}}

\* C16: a successful export that left a requested series out has told the
\* caller so; what the caller gets is the value returned and what is printed.
C16_DroppedKeysSignalled ==
    (Exported /\ Dropped # {}) => export.printed # ""

\* statistics of an array of values, from their definitions
SumOver(values, I) ==
    LET RECURSIVE Sum(_)
        Sum(J) == IF J = {} THEN 0
                  ELSE LET j == CHOOSE j \in J : TRUE IN values[j] + Sum(J \ {j})
    IN  Sum(I)

ReferenceStatistics(values) ==
    LET I == 1..Len(values)
        n == Len(values)
        total == SumOver(values, I)
        \* n * (x - mean), squared, summed: n^3 times the variance
        spread == SumOver([i \in I |-> (n * values[i] - total) * (n * values[i] - total)], I)
    IN  [avg     |-> Format3(Frac(total, n)),
         max_val |-> Format3(Frac(CHOOSE x \in {values[i] : i \in I} :
                                      \A i \in I : values[i] <= x, 1)),
         min_val |-> Format3(Frac(CHOOSE x \in {values[i] : i \in I} :
                                      \A i \in I : values[i] >= x, 1)),
         std_dev |-> Format3Sqrt(Frac(spread, n * n * n)),
         samples |-> n]

StatisticsOf(entry) ==
    [avg |-> entry.avg, max_val |-> entry.max_val, min_val |-> entry.min_val,
     std_dev |-> entry.std_dev, samples |-> entry.samples]

TwoCursors == DOMAIN cursor_positions = CursorIds

StatisticsShown == stats_label # StatisticsWidget_init

CursorStart ==
    IF cursor_positions[1] <= cursor_positions[2] THEN cursor_positions[1]
    ELSE cursor_positions[2]

CursorEnd ==
    IF cursor_positions[1] <= cursor_positions[2] THEN cursor_positions[2]
    ELSE cursor_positions[1]

\* the raw values of a series whose timestamps lie between the cursors
ValuesBetweenCursors(signal_key) ==
    LET ix == SelectSeq([i \in 1..Len(SeriesIn(signal_key).time) |-> i],
                        LAMBDA i : /\ CursorStart <= SeriesIn(signal_key).time[i]
                                   /\ SeriesIn(signal_key).time[i] <= CursorEnd)
    IN  [m \in 1..Len(ix) |-> SeriesIn(signal_key).value[ix[m]]]

EntriesNamed(signal_key) ==
    {e \in 1..Len(stats_label.entries) :
        stats_label.entries[e].full_name = FullName(SignalInfo(signal_key))}

\* C17: with two cursors, the statistics shown have one entry for exactly
\* the series with a raw sample between the smaller and the larger cursor
\* position (both included), computed over those raw samples, and are the
\* same when the two cursors trade places.
C17_StatisticsOverRawSamplesInRange ==
    (StatisticsShown /\ TwoCursors) =>
        /\ \A k \in {ExportKeys[i] : i \in 1..Len(ExportKeys)} :
              IF HasSeries(k) /\ ValuesBetweenCursors(k) # <<>>
              THEN /\ Cardinality(EntriesNamed(k)) = 1
                   /\ \A e \in EntriesNamed(k) :
                         StatisticsOf(stats_label.entries[e])
                            = ReferenceStatistics(ValuesBetweenCursors(k))
              ELSE EntriesNamed(k) = {}
        /\ update_statistics([c \in CursorIds |-> cursor_positions[3 - c]],
                             request.signal_data_dict) = stats_label

\* C17 witness: statistics with cursor 1 right of cursor 2, for a series
\* with samples inside and outside the range, while another series has none
\* inside
C17_Witness ==
    /\ StatisticsShown /\ TwoCursors
    /\ cursor_positions[1] > cursor_positions[2]
    /\ HasSeries("M1.S1") /\ HasSeries("M2.S1")
    /\ Len(stats_label.entries) = 1
    /\ stats_label.entries[1].samples < Len(SeriesIn("M1.S1").time)
    /\ SeriesIn("M2.S1").time # <<>>
    /\ EntriesNamed("M2.S1") = {}

\* C18: when the cursors stand on the first and on the last timestamp of a
\* series, the statistics shown for it are those of the whole series.
C18_FullSpanEqualsWholeSeries ==
    (StatisticsShown /\ TwoCursors) =>
        \A k \in {ExportKeys[i] : i \in 1..Len(ExportKeys)} :
            (/\ HasSeries(k) /\ SeriesIn(k).time # <<>>
             /\ CursorStart = SeriesIn(k).time[1]
             /\ CursorEnd = SeriesIn(k).time[Len(SeriesIn(k).time)]) =>
                /\ EntriesNamed(k) # {}
                /\ \A e \in EntriesNamed(k) :
                      StatisticsOf(stats_label.entries[e])
                         = ReferenceStatistics(SeriesIn(k).value)

C20_RangeExportRoundTrip ==
    partial.loaded # None =>
        \A k \in KeysWithSampleInRange :
            LET full_key == FullName(SignalInfo(k))
                signals == partial.loaded[1].signals
            IN  /\ full_key \in DOMAIN signals
                /\ signals[full_key].time = Prefiltered[k][1].time
                /\ signals[full_key].value = Prefiltered[k][1].value
                /\ signals[full_key].sample_count = Len(signals[full_key].time)
                /\ signals[full_key].sample_count = Len(signals[full_key].value)

\* C20 witness: a document was loaded that holds a series of which the range
\* kept one sample and cut one off
C20_Witness ==
    /\ partial.loaded # None
    /\ \E k \in KeysWithSampleInRange :
          Len(IndicesInRange(k)) < Len(SeriesIn(k).time)

\* C21: neither exporter changes its input: across every call of
\* export_signals or export_time_range, successful or not, the caller's
\* signal_data_dict has the same keys and every series the same timestamps
\* and values as before
C21_ExportersLeaveInputAlone ==
    [][request'.signal_data_dict = request.signal_data_dict]_vars

\* both exporters have been called, one with success and one without, on a
\* request whose range keeps a sample of a series and cuts another off
C21_Witness ==
    /\ export.calls > 0
    /\ partial.calls > 0
    /\ export.ok # partial.ok
    /\ \E k \in DOMAIN request.signal_data_dict :
          /\ HasSeries(k)
          /\ Len(IndicesInRange(k)) > 0
          /\ Len(IndicesInRange(k)) < Len(SeriesIn(k).time)

\* the last call was a successful export to a destination that held the
\* file written by an earlier successful call of the same exporter on the
\* same arguments
IsRepeatedExport ==
    /\ last.ok
    /\ last.key # None
    /\ \/ last.op = "export_signals" /\ "rows" \in DOMAIN last.key[1]
       \/ last.op = "export_time_range" /\ "signals" \in DOMAIN last.key[1]

\* C22 as stated: running the same export a second time leaves the
\* destination with the content the first run wrote
C22_RepeatedExportSameContent ==
    IsRepeatedExport => disk = last.key

\* C22, amended: a repeated CSV export leaves the destination as the first
\* run wrote it; a repeated range export replaces the document by one that
\* differs from the first at most in metadata.export_date, the time of
\* the run
C22_RepeatedExportSameContentButDate ==
    IsRepeatedExport =>
        /\ disk # None
        /\ last.op = "export_signals" => disk = last.key
        /\ last.op = "export_time_range" =>
              /\ disk[1].signals = last.key[1].signals
              /\ disk[1].time_range = last.key[1].time_range
              /\ [disk[1].metadata EXCEPT !.export_date = ""]
                   = [last.key[1].metadata EXCEPT !.export_date = ""]

\* a CSV export has been repeated onto a table with a data row
C22_Witness ==
    /\ IsRepeatedExport
    /\ last.op = "export_signals"
    /\ disk[1].rows # <<>>

\* a range export has been repeated at another time than the first run
C22_DateDiffers ==
    /\ IsRepeatedExport
    /\ last.op = "export_time_range"
    /\ disk[1].signals # <<>>
    /\ disk[1].metadata.export_date # last.key[1].metadata.export_date

\* the frames the reader holds, with start_time added back to each timestamp
RawFrames ==
    [i \in 1..Len(blf_reader.messages) |->
        [blf_reader.messages[i] EXCEPT !.timestamp = @ + blf_reader.start_time]]

\* C23: after every successful load of a frame log, the first one or a
\* later one, the first stored frame has timestamp 0 and the stored frames
\* are the frames of a file that loads, each with its raw timestamp minus
\* the raw timestamp of the file's first frame
C23_TimestampsRelativeToFirstFrame ==
    (last.op = "open_blf_file" /\ last.ok) =>
        /\ blf_reader.messages # <<>>
        /\ blf_reader.messages[1].timestamp = 0
        /\ \E file \in BlfFiles(Len(blf_reader.messages)) :
              /\ ~file.raises
              /\ file.frames = RawFrames
              /\ blf_reader.start_time = file.frames[1].timestamp
              /\ blf_reader.end_time = file.frames[Len(file.frames)].timestamp

\* the second of two loads of a frame log has succeeded and stored a frame
\* that was recorded before the first frame of its file
C23_Witness ==
    /\ loads = 2
    /\ dbc_parser = DBCParser_init
    /\ last.op = "open_blf_file"
    /\ last.ok
    /\ \E i \in 1..Len(blf_reader.messages) : blf_reader.messages[i].timestamp < 0

\* C25: a process_signal call that fails, for whichever cause, leaves the
\* cache as it was: the same keys with the same series, the requested key
\* included, so get_cached_signal returns for it what it returned before
C25_FailedCallKeepsCache ==
    [][(last'.op = "process_signal" /\ ~last'.ok) =>
          /\ signal_processor' = signal_processor
          /\ get_cached_signal(signal_processor'[1], last'.key[1], last'.key[2])
               = get_cached_signal(signal_processor[1], last'.key[1], last'.key[2])]_vars

\* a call has failed for a key whose series was cached, and the cache
\* still returns that series
C25_Witness ==
    /\ IsProcessCall
    /\ ~last.ok
    /\ last.cached
    /\ get_cached_signal(signal_processor[1], last.key[1], last.key[2]) # None

\* the four per-graph lists of the panel
PanelLists ==
    <<graph_panel.plot_widgets, graph_panel.plot_items, graph_panel.signal_info,
      graph_panel.signal_data>>

\* C29: after any calls of set_graph_count, plot_signal, clear_graph and
\* clear_all the four per-graph lists have the length current_graph_count,
\* which is within 1..10; and a set_graph_count call with a count outside
\* 1..10 or equal to the current count leaves the panel as it was
C29_ListsFollowGraphCount ==
    /\ [](/\ graph_panel.current_graph_count \in 1..10
          /\ \A i \in 1..4 : Len(PanelLists[i]) = graph_panel.current_graph_count)
    /\ [][(/\ last'.op = "set_graph_count"
           /\ steps' = steps + 1
           /\ \/ last'.key[1] \notin 1..10
              \/ last'.key[1] = graph_panel.current_graph_count)
          => graph_panel' = graph_panel]_vars

\* a panel of three graphs, made from a panel showing a signal, has the
\* signal on its first graph and has refused a count
C29_Witness ==
    /\ graph_panel.current_graph_count = 3
    /\ graph_panel.signal_info[1] # None
    /\ graph_panel.created = 2
    /\ last.op = "set_graph_count"
    /\ last.key[1] \in {0, 3, 11}

\* the lines of a cursor
LinesOf(cursor_id) == cursor_manager.cursors[cursor_id]

\* C30: after any adds, drags and removals of cursors and changes of the
\* graphs, every cursor has exactly one line on each plot widget of the
\* panel, all at the position get_cursor_positions reports; add_cursor for
\* an identifier that exists changes nothing; and update_plot_widgets
\* keeps the cursors 1 and 2 and their positions
C30_CursorLinesInStep ==
    /\ [](\A c \in DOMAIN cursor_manager.cursors :
            /\ Len(LinesOf(c)) = Len(graph_panel.plot_widgets)
            /\ c \in DOMAIN get_cursor_positions(cursor_manager)
            /\ \A i \in 1..Len(LinesOf(c)) :
                  /\ LinesOf(c)[i].on = graph_panel.plot_widgets[i]
                  /\ LinesOf(c)[i].value = get_cursor_positions(cursor_manager)[c])
    /\ [][(/\ last'.op = "add_cursor"
           /\ steps' = steps + 1
           /\ last'.key[1] \in DOMAIN cursor_manager.cursors)
          => cursor_manager' = cursor_manager]_vars
    /\ [][(last'.op = "on_graph_count_changed" /\ steps' = steps + 1)
          => get_cursor_positions(cursor_manager') = get_cursor_positions(cursor_manager)]_vars

\* the number of graphs has changed to three under both cursors, which
\* stand at the positions 1 and 2 on graphs made after they were added
C30_Witness ==
    /\ DOMAIN cursor_manager.cursors = {1, 2}
    /\ Len(graph_panel.plot_widgets) = 3
    /\ graph_panel.created > 1
    /\ get_cursor_positions(cursor_manager) = [c \in {1, 2} |-> c]
    /\ last.op = "on_graph_count_changed"

\* the item the last check or uncheck was made on
LastItem == signal_selector.tree[last.key[1]].signals[last.key[2]]

\* C26: after any checks, unchecks, clear_selection and
\* set_selected_signals calls the number of selected signals is at most
\* max_signals; and a check made when max_signals signals are selected is
\* taken back: the item is unchecked again and the list is as it was
C26_SelectionWithinLimit ==
    /\ [](Len(signal_selector.selected_signals) <= signal_selector.max_signals)
    /\ [][(/\ last'.op = "check"
           /\ steps' = steps + 1
           /\ Len(signal_selector.selected_signals) >= signal_selector.max_signals)
          => signal_selector' = signal_selector]_vars

\* a sixth signal has been checked with five selected, and is unchecked
C26_Witness ==
    /\ last.op = "check"
    /\ Len(signal_selector.selected_signals) = MAX_SIGNALS
    /\ LastItem.check = "unchecked"

\* the signal items of the tree that are checked
CheckedItems ==
    {mg \in (1..Len(signal_selector.tree)) \X (1..3) :
        /\ mg[2] <= Len(signal_selector.tree[mg[1]].signals)
        /\ signal_selector.tree[mg[1]].signals[mg[2]].check = "checked"}

\* C27: in every reachable state selected_signals holds exactly the signals
\* whose tree items are checked, each once, also after load_messages has
\* rebuilt the tree while signals were selected
C27_SelectedAreTheChecked ==
    LET selected == signal_selector.selected_signals
    IN  /\ \A i \in 1..Len(selected) :
              \E mg \in CheckedItems :
                  signal_info_of(signal_selector.tree, mg[1], mg[2]) = selected[i]
        /\ \A mg \in CheckedItems :
              \E i \in 1..Len(selected) :
                  signal_info_of(signal_selector.tree, mg[1], mg[2]) = selected[i]
        /\ \A i, j \in 1..Len(selected) : selected[i] = selected[j] => i = j

\* the series that the loaded frame log and schema give for a signal
DecodedNow(message_name, signal_name) ==
    process_signal(SignalProcessor_init, blf_reader, dbc_parser,
                   message_name, signal_name).ret

\* C24: after a successful reload of either file every series that
\* get_signal_data offers is the one decoded from the frame log and the
\* schema that are loaded now
C24_OfferedSeriesAreCurrent ==
    (last.op \in {"open_blf_file", "open_dbc_file"} /\ last.ok)
    => \A key \in DOMAIN get_signal_data(graph_panel) :
          LET offered == get_signal_data(graph_panel)[key]
              now == DecodedNow(offered.message, offered.signal)
          IN  /\ now # None
              /\ now[1].time = offered.time
              /\ now[1].value = offered.value

\* the i-th selected signal is on graph i with the series decoded for it
ShownAt(i) ==
    LET selected == signal_selector.selected_signals
        now == DecodedNow(selected[i].message, selected[i].signal)
    IN  /\ i <= Len(graph_panel.signal_info)
        /\ graph_panel.signal_info[i] = Some(selected[i])
        /\ now # None
        /\ graph_panel.signal_data[i] = Some([time |-> now[1].time, value |-> now[1].value])

====
